---------------------------- MODULE Spec2Model ----------------------------
(***************************************************************************)
(* Model of the fashion-catalog ETL pipeline: utils/extract.py (text       *)
(* extraction, product parsing, pagination), utils/transform.py (the five  *)
(* cleaners and the transformer), utils/load.py (the three loaders and    *)
(* the multi-destination loader) and main.py (ETLPipeline.run, which       *)
(* drives the three).                                                      *)
(*                                                                         *)
(* Text is modelled as a sequence of characters (one-character strings;    *)
(* the three non-ASCII code points are named by their code point), so that *)
(* keyword search, regular-expression search and strip() are computed and  *)
(* not assumed.                                                            *)
(***************************************************************************)
EXTENDS Integers, Sequences, FiniteSets, TLC

VARIABLES
    \* RegexTextExtractor.extract_text: its arguments and its outcome
    elements, keyword, pattern, default, textResult,
    \* FashionProductParser.parse: the entry node, the wall clock, the outcome
    html_element, clock, product,
    \* FashionDataExtractor.extract: its arguments, the loop variable, the
    \* accumulated list, where the call stands, and what it did so far
    total_pages, delay, page_number, data, epc, fetchLog, parseLog, sleepLog,
    \* FashionDataTransformer.transform: the table given, the cleaner that
    \* runs next, the working table df, the table returned, the cleaners invoked
    \* so far and the one that raised ("none" when none did); the arguments a
    \* PriceCleaner is constructed with and the cleaner object (its attributes)
    df_raw, tpc, df_current, df_cleaned, invoked, raisedIn, price_args, price_cleaner,
    \* MultiDestinationDataLoader.load_to_all: its arguments, the process
    \* environment, where the call stands, the results mapping, the loader
    \* calls made, and the three destinations
    load_args, environ, lpc, results, loaderCalls, csv_file, db_table, sheet,
    \* ETLPipeline.run: its argument, the records the parser yields for the
    \* entries of a page, where the run stands, and the stage calls made
    run_args, catalog, rpc, stageLog

textVars  == <<elements, keyword, pattern, default, textResult>>
parseVars == <<html_element, clock, product>>
extractVars == <<total_pages, delay, page_number, data, epc, fetchLog, parseLog, sleepLog>>
transformVars ==
    <<df_raw, tpc, df_current, df_cleaned, invoked, raisedIn, price_args, price_cleaner>>
loadVars == <<load_args, environ, lpc, results, loaderCalls, csv_file, db_table, sheet>>
runVars == <<run_args, catalog, rpc, stageLog>>
vars == <<textVars, parseVars, extractVars, transformVars, loadVars, runVars>>

\* what the actions of one component leave alone
notText == <<parseVars, extractVars, transformVars, loadVars, runVars>>
notParse == <<textVars, extractVars, transformVars, loadVars, runVars>>
notExtract == <<textVars, parseVars, transformVars, loadVars, runVars>>
notTransform == <<textVars, parseVars, extractVars, loadVars, runVars>>
notLoad == <<textVars, parseVars, extractVars, transformVars, runVars>>

---------------------------------------------------------------------------
(* Bounds of the model *)

\* longest list of text fragments handed to extract_text
MaxFrags == 2
\* largest total_pages given to extract
MaxPages == 3
\* most entry nodes on one page
MaxCards == 2
\* most rows of a raw table
MaxRows == 2

---------------------------------------------------------------------------
(* Characters and character classes (Python's re, str patterns) *)

\* U+2B50, the star glyph of the page text
STAR == "U+2B50"
\* U+00E2 and U+00AD, the two code points config.py holds in the rating pattern
A_CIRC == "U+00E2"
SHY == "U+00AD"

Digit == {"0", "1", "2", "3", "4", "5", "6", "7", "8", "9"}
Letter ==
    {"a", "b", "c", "d", "e", "f", "g", "h", "i", "j", "k", "l", "m",
     "n", "o", "p", "q", "r", "s", "t", "u", "v", "w", "x", "y", "z",
     "A", "B", "C", "D", "E", "F", "G", "H", "I", "J", "K", "L", "M",
     "N", "O", "P", "Q", "R", "S", "T", "U", "V", "W", "X", "Y", "Z"}
\* \s
Space == {" ", "\n", "\t"}
\* \w (U+00E2 is a letter; U+00AD and U+2B50 are not word characters)
Word == Letter \cup Digit \cup {"_", A_CIRC}

\* str.strip(): leading and trailing whitespace removed
RECURSIVE LStrip(_)
LStrip(s) == IF Len(s) > 0 /\ Head(s) \in Space THEN LStrip(Tail(s)) ELSE s

RECURSIVE RStrip(_)
RStrip(s) ==
    IF Len(s) > 0 /\ s[Len(s)] \in Space THEN RStrip(SubSeq(s, 1, Len(s) - 1)) ELSE s

Strip(s) == RStrip(LStrip(s))

\* Python's `kw in s` on strings
Contains(s, kw) ==
    \E i \in 1..(Len(s) - Len(kw) + 1) : SubSeq(s, i, i + Len(kw) - 1) = kw

---------------------------------------------------------------------------
(* Regular expressions: the fragment of re the program's patterns use.     *)
(* A pattern element is one character of a class, a greedy * or + of a     *)
(* class, or an optional group.  In every pattern of the program the class *)
(* of a repetition is disjoint from what may follow it, so greedy matching *)
(* never has to give characters back.                                      *)

One(cls)  == [t |-> "one",  cls |-> cls, sub |-> <<>>]
Star(cls) == [t |-> "star", cls |-> cls, sub |-> <<>>]
Plus(cls) == [t |-> "plus", cls |-> cls, sub |-> <<>>]
Opt(p)    == [t |-> "opt",  cls |-> {},  sub |-> p]
Lit(s)    == [i \in 1..Len(s) |-> One({s[i]})]

\* first position from i on whose character is outside cls
RECURSIVE SpanEnd(_, _, _)
SpanEnd(s, i, cls) ==
    IF i <= Len(s) /\ s[i] \in cls THEN SpanEnd(s, i + 1, cls) ELSE i

\* position after the match of elements p at position i of s; 0 when none
RECURSIVE MatchSeq(_, _, _)
MatchSeq(p, s, i) ==
    IF Len(p) = 0 THEN i
    ELSE LET e == Head(p)
             r == Tail(p)
         IN  CASE e.t = "one" ->
                    IF i <= Len(s) /\ s[i] \in e.cls THEN MatchSeq(r, s, i + 1) ELSE 0
               [] e.t = "star" -> MatchSeq(r, s, SpanEnd(s, i, e.cls))
               [] e.t = "plus" ->
                    IF i <= Len(s) /\ s[i] \in e.cls
                    THEN MatchSeq(r, s, SpanEnd(s, i, e.cls))
                    ELSE 0
               [] e.t = "opt" ->
                    LET j == MatchSeq(e.sub, s, i)
                    IN  MatchSeq(r, s, IF j = 0 THEN i ELSE j)

\* A pattern with one capture group: what precedes the group, the group,
\* what follows it.
Regex(pre, cap, post) == [pre |-> pre, cap |-> cap, post |-> post]

\* the match of pattern re that starts at position i: [ok, group1]
MatchAt(re, s, i) ==
    LET j == MatchSeq(re.pre, s, i)
        k == IF j = 0 THEN 0 ELSE MatchSeq(re.cap, s, j)
        l == IF k = 0 THEN 0 ELSE MatchSeq(re.post, s, k)
    IN  IF l = 0 THEN [ok |-> FALSE, group1 |-> <<>>]
        ELSE [ok |-> TRUE, group1 |-> SubSeq(s, j, k - 1)]

\* re.search(pattern, s): the match at the leftmost position that has one
ReSearch(re, s) ==
    LET starts == {i \in 1..(Len(s) + 1) : MatchAt(re, s, i).ok}
    IN  IF starts = {} THEN [ok |-> FALSE, group1 |-> <<>>]
        ELSE MatchAt(re, s, CHOOSE i \in starts : \A j \in starts : i <= j)

---------------------------------------------------------------------------
(* utils/config.py: keywords, extraction patterns, default values *)

kwRating == <<"R", "a", "t", "i", "n", "g">>
kwColors == <<"C", "o", "l", "o", "r", "s">>
kwSize   == <<"S", "i", "z", "e">>
kwGender == <<"G", "e", "n", "d", "e", "r">>

\* the number part of the rating pattern, \s*\d+(?:\.\d+)?
RatingNumber == <<Star(Space), Plus(Digit), Opt(<<One({"."}), Plus(Digit)>>)>>

\* EXTRACTION_PATTERNS: r"Rating:\s*(<glyph>\s*\d+(?:\.\d+)?)" with the glyph
\* as config.py holds it, the two code points U+00E2 U+00AD
EXTRACTION_PATTERNS ==
    [rating |-> Regex(Lit(kwRating \o <<":">>) \o <<Star(Space)>>,
                      Lit(<<A_CIRC, SHY>>) \o RatingNumber, <<>>),
     colors |-> Regex(<<>>, <<Plus(Digit)>>, <<Star(Space)>> \o Lit(kwColors)),
     size   |-> Regex(Lit(kwSize \o <<":">>) \o <<Star(Space)>>, <<Plus(Word)>>, <<>>),
     gender |-> Regex(Lit(kwGender \o <<":">>) \o <<Star(Space)>>, <<Plus(Word)>>, <<>>)]

\* the rating pattern the unit tests pass to extract_text, with U+2B50
TestRatingPattern ==
    Regex(Lit(kwRating \o <<":">>) \o <<Star(Space)>>, <<One({STAR})>> \o RatingNumber, <<>>)

DEFAULT_VALUES ==
    [title  |-> <<"U", "n", "k", "n", "o", "w", "n", " ", "T", "i", "t", "l", "e">>,
     price  |-> <<"P", "r", "i", "c", "e", " ", "N", "o", "t", " ",
                  "A", "v", "a", "i", "l", "a", "b", "l", "e">>,
     rating |-> <<"I", "n", "v", "a", "l", "i", "d", " ", "R", "a", "t", "i", "n", "g">>,
     colors |-> <<"N", "o", " ", "C", "o", "l", "o", "r", "s">>,
     size   |-> <<"U", "n", "k", "n", "o", "w", "n">>,
     gender |-> <<"U", "n", "k", "n", "o", "w", "n">>]

\* the default of extract_text's `default` parameter
NA == <<"N", "/", "A">>

---------------------------------------------------------------------------
(* RegexTextExtractor.extract_text *)

\* a text fragment: has = FALSE is an element whose .string is None
NoString == [has |-> FALSE, string |-> <<>>]
Frag(s) == [has |-> TRUE, string |-> s]

\* the outcome of a call: a value, or an exception raised to the caller
Ok(v) == [raised |-> FALSE, value |-> v]
Raise == [raised |-> TRUE, value |-> <<>>]

\* a guard that lets a None .string reach `keyword in element.string`,
\* which raises TypeError
KeywordIn_unguarded(element, kw) ==
    IF ~element.has THEN Raise ELSE Ok(Contains(element.string, kw))

\* `element.string and keyword in element.string`: None and "" are falsy,
\* so the containment test runs on a non-empty string only
KeywordIn(element, kw) ==
    Ok(element.has /\ Len(element.string) > 0 /\ Contains(element.string, kw))

\* a loop that stops at the first fragment holding the keyword
RECURSIVE extract_text_first_only(_, _, _, _)
extract_text_first_only(elems, kw, re, dflt) ==
    IF Len(elems) = 0 THEN Ok(dflt)
    ELSE LET element == Head(elems)
             cond == KeywordIn(element, kw)
             match == ReSearch(re, element.string)
         IN  IF cond.raised THEN Raise
             ELSE IF cond.value
                  THEN (IF match.ok THEN Ok(Strip(match.group1)) ELSE Ok(dflt))
                  ELSE extract_text_first_only(Tail(elems), kw, re, dflt)

\* for element in elements: if <keyword in it>: match = re.search(...);
\* if match: return group 1 stripped.  After the loop: return default.
RECURSIVE extract_text(_, _, _, _)
extract_text(elems, kw, re, dflt) ==
    IF Len(elems) = 0 THEN Ok(dflt)
    ELSE LET element == Head(elems)
             cond == KeywordIn(element, kw)
             match == ReSearch(re, element.string)
         IN  IF cond.raised THEN Raise
             ELSE IF cond.value /\ match.ok
                  THEN Ok(Strip(match.group1))
                  ELSE extract_text(Tail(elems), kw, re, dflt)

---------------------------------------------------------------------------
(* Inputs of the text-extraction runs *)

Txt_Rating48   == kwRating \o <<":", " ", STAR, " ", "4", ".", "8">>
Txt_Rating39   == kwRating \o <<":", " ", STAR, " ", "3", ".", "9">>
Txt_Rating4    == kwRating \o <<":", " ", STAR, " ", "4">>
Txt_RatingText == kwRating \o <<" ", "T", "e", "x", "t">>
Txt_NotRated   == kwRating \o <<":", " ", "N", "o", "t", " ", "R", "a", "t", "e", "d">>
Txt_Colors3    == <<"3", " ">> \o kwColors
Txt_SizeM      == kwSize \o <<":", " ", "M">>
Txt_GenderMen  == kwGender \o <<":", " ", "M", "e", "n">>
Txt_NotFound   == <<"N", "o", "t", " ", "F", "o", "u", "n", "d">>

Fragments ==
    {Frag(Txt_Rating48), Frag(Txt_Rating39), Frag(Txt_RatingText), Frag(Txt_Colors3),
     Frag(Txt_SizeM), Frag(Txt_GenderMen), Frag(<<>>), NoString}

FragLists == UNION {[1..n -> Fragments] : n \in 0..MaxFrags}

\* (keyword, pattern, default) as parse passes them, and as the unit tests do
TextCalls ==
    {[keyword |-> kwRating, pattern |-> EXTRACTION_PATTERNS.rating, default |-> DEFAULT_VALUES.rating],
     [keyword |-> kwColors, pattern |-> EXTRACTION_PATTERNS.colors, default |-> DEFAULT_VALUES.colors],
     [keyword |-> kwSize,   pattern |-> EXTRACTION_PATTERNS.size,   default |-> DEFAULT_VALUES.size],
     [keyword |-> kwGender, pattern |-> EXTRACTION_PATTERNS.gender, default |-> DEFAULT_VALUES.gender],
     [keyword |-> kwRating, pattern |-> TestRatingPattern, default |-> NA],
     [keyword |-> kwRating, pattern |-> TestRatingPattern, default |-> Txt_NotFound]}

\* a call not made yet, and a call that ended (by returning or by raising)
Pending == [done |-> FALSE, raised |-> FALSE, value |-> <<>>]
Ended(r) == [done |-> TRUE, raised |-> r.raised, value |-> r.value]

TextInit ==
    /\ elements \in FragLists
    /\ \E c \in TextCalls :
         /\ keyword = c.keyword
         /\ pattern = c.pattern
         /\ default = c.default
    /\ textResult = Pending

TextIdle ==
    /\ elements = <<>>
    /\ keyword = <<>>
    /\ pattern = Regex(<<>>, <<>>, <<>>)
    /\ default = <<>>
    /\ textResult = Pending

\* one call of extract_text on the drawn arguments
ExtractText ==
    /\ ~textResult.done
    /\ textResult' = Ended(extract_text(elements, keyword, pattern, default))
    /\ UNCHANGED <<elements, keyword, pattern, default>>
    /\ UNCHANGED notText

---------------------------------------------------------------------------
(* Instants: what datetime.now() reads.  An instant is its calendar date,  *)
(* its time of day and its microseconds, as strftime prints them.          *)

Instant(d, t, us) == [date |-> d, time |-> t, micro |-> us]
NoInstant == Instant("", "", "")
Instants ==
    {Instant("2025-05-10", "10:00:00", "000000"),
     Instant("2025-06-29", "23:59:59", "123456")}

---------------------------------------------------------------------------
(* FashionProductParser.parse *)

Missing == [has |-> FALSE, text |-> <<>>]
Elem(s) == [has |-> TRUE, text |-> s]

Txt_Tee   == <<"T", "e", "e">>
Txt_Price == <<"$", "2", "5", ".", "0", "0">>

\* the paragraph of a field, when the entry has one
Paragraph(choice) == IF choice.has THEN <<Frag(choice.text)>> ELSE <<>>

\* An entry node: the title element, the price container and the <p>
\* fragments, in page order.  raises marks a node on which resolving a
\* selector throws.
Node(title, price, rating, colors, size, gender) ==
    [raises |-> FALSE, title |-> title, price |-> price,
     info_paragraphs |-> Paragraph(rating) \o Paragraph(colors)
                           \o Paragraph(size) \o Paragraph(gender)]

BrokenNode == [raises |-> TRUE, title |-> Missing, price |-> Missing, info_paragraphs |-> <<>>]

TitleChoices  == {Missing, Elem(<<>>), Elem(<<" ">> \o Txt_Tee \o <<"\n">>)}
PriceChoices  == {Missing, Elem(<<" ">> \o Txt_Price)}
RatingChoices == {Missing, Elem(Txt_Rating48), Elem(Txt_Rating4), Elem(Txt_NotRated)}
ColorsChoices == {Missing, Elem(Txt_Colors3)}
SizeChoices   == {Missing, Elem(Txt_SizeM)}
GenderChoices == {Missing, Elem(Txt_GenderMen)}

Nodes ==
    {Node(t, p, r, c, s, g) :
        t \in TitleChoices, p \in PriceChoices, r \in RatingChoices,
        c \in ColorsChoices, s \in SizeChoices, g \in GenderChoices}
    \cup {BrokenNode}

Absent == [absent |-> TRUE, Title |-> <<>>, Price |-> <<>>, Rating |-> <<>>,
           Colors |-> <<>>, Size |-> <<>>, Gender |-> <<>>, Timestamp |-> NoInstant]

\* the four extract_text calls of parse
ParseFields(node) ==
    [Rating |-> extract_text(node.info_paragraphs, kwRating,
                             EXTRACTION_PATTERNS.rating, DEFAULT_VALUES.rating),
     Colors |-> extract_text(node.info_paragraphs, kwColors,
                             EXTRACTION_PATTERNS.colors, DEFAULT_VALUES.colors),
     Size   |-> extract_text(node.info_paragraphs, kwSize,
                             EXTRACTION_PATTERNS.size, DEFAULT_VALUES.size),
     Gender |-> extract_text(node.info_paragraphs, kwGender,
                             EXTRACTION_PATTERNS.gender, DEFAULT_VALUES.gender)]

\* title_element.text.strip() if title_element and title_element.text.strip()
\* else DEFAULT_VALUES["title"]
ParseTitle(node) ==
    IF node.title.has /\ Len(Strip(node.title.text)) > 0
    THEN Strip(node.title.text) ELSE DEFAULT_VALUES.title

\* price_element.text.strip() if price_element else DEFAULT_VALUES["price"]
ParsePrice(node) ==
    IF node.price.has THEN Strip(node.price.text) ELSE DEFAULT_VALUES.price

\* parse(node) at wall-clock time now: the record, or Absent when anything
\* inside the try block raises (`except Exception: return None`)
parse(node, now) ==
    LET f == ParseFields(node)
    IN  IF node.raises \/ f.Rating.raised \/ f.Colors.raised
           \/ f.Size.raised \/ f.Gender.raised
        THEN Ok(Absent)
        ELSE Ok([absent |-> FALSE,
                 Title  |-> ParseTitle(node),
                 Price  |-> ParsePrice(node),
                 Rating |-> f.Rating.value,
                 Colors |-> f.Colors.value,
                 Size   |-> f.Size.value,
                 Gender |-> f.Gender.value,
                 Timestamp |-> now])

ParseInit ==
    /\ html_element \in Nodes
    /\ clock \in Instants
    /\ product = Pending

ParseIdle ==
    /\ html_element = BrokenNode
    /\ clock = NoInstant
    /\ product = Pending

\* one call of parse on the drawn node
Parse ==
    /\ ~product.done
    /\ product' = Ended(parse(html_element, clock))
    /\ UNCHANGED <<html_element, clock>>
    /\ UNCHANGED notParse

---------------------------------------------------------------------------
(* FashionDataExtractor.extract: one action per pass of the page loop, by  *)
(* what the fetch returned and what the page held.  The content fetcher    *)
(* and the product parser are the injected interfaces: what they return is *)
(* drawn here.                                                             *)

\* the inter-page delays tried
Delays == {0, 2}

\* a URL builder that gives page 1 the page suffix as well
PageUrl_always_suffix(n) == <<"BASE_URL", "page", n>>

\* url = BASE_URL if page_number == 1 else f"{BASE_URL}page{page_number}"
PageUrl(n) == IF n = 1 THEN <<"BASE_URL">> ELSE <<"BASE_URL", "page", n>>

\* what the parser does with one entry: a record, None, or an exception
CardOutcomes == {"record", "none", "raises"}
CardLists == UNION {[1..n -> CardOutcomes] : n \in 1..MaxCards}

\* a page loop that gives up the page at the first entry that yields no record
RECURSIVE PageRecords_abort(_, _, _)
PageRecords_abort(cards, n, i) ==
    IF i > Len(cards) \/ cards[i] # "record" THEN <<>>
    ELSE <<[page |-> n, entry |-> i]>> \o PageRecords_abort(cards, n, i + 1)

\* a page loop that puts each record in front of the page's earlier ones
RECURSIVE PageRecords_reversed(_, _, _)
PageRecords_reversed(cards, n, i) ==
    IF i > Len(cards) THEN <<>>
    ELSE PageRecords_reversed(cards, n, i + 1)
         \o (IF cards[i] = "record" THEN <<[page |-> n, entry |-> i]>> ELSE <<>>)

\* the records one page appends: one per entry the parser returned a
\* record for, in entry order
RECURSIVE PageRecords(_, _, _)
PageRecords(cards, n, i) ==
    IF i > Len(cards) THEN <<>>
    ELSE (IF cards[i] = "record" THEN <<[page |-> n, entry |-> i]>> ELSE <<>>)
         \o PageRecords(cards, n, i + 1)

\* the parse calls of one page: the entry, and whether a record came back
\* (None and an exception both leave nothing to append)
ParseCalls(cards, n) ==
    [i \in 1..Len(cards) |-> [page |-> n, entry |-> i, record |-> cards[i] = "record"]]

\* one pass of the loop: the page, the URL fetched, what came back, and the
\* number of collection-card nodes found in it
Fetched(kind) ==
    [page |-> page_number, url |-> PageUrl(page_number), content |-> kind, cards |-> 0]

\* total_pages is any integer: -1 stands for the negative ones
ExtractInit ==
    /\ total_pages \in -1..MaxPages
    /\ delay \in Delays
    /\ page_number = 1
    /\ data = <<>>
    /\ epc = "loop"
    /\ fetchLog = <<>>
    /\ parseLog = <<>>
    /\ sleepLog = <<>>

ExtractIdle ==
    /\ total_pages = 0
    /\ delay = 0
    /\ page_number = 1
    /\ data = <<>>
    /\ epc = "idle"
    /\ fetchLog = <<>>
    /\ parseLog = <<>>
    /\ sleepLog = <<>>

InLoop == epc = "loop" /\ page_number <= total_pages

\* a failed fetch that only skips the page
FetchFails_skip ==
    /\ InLoop
    /\ fetchLog' = Append(fetchLog, Fetched("None"))
    /\ page_number' = page_number + 1
    /\ UNCHANGED <<total_pages, delay, data, epc, parseLog, sleepLog>>
    /\ UNCHANGED notExtract

\* fetch returned None: `else: ... break`, then `return data`
FetchFails ==
    /\ InLoop
    /\ fetchLog' = Append(fetchLog, Fetched("None"))
    /\ epc' = "returned"
    /\ UNCHANGED <<total_pages, delay, page_number, data, parseLog, sleepLog>>
    /\ UNCHANGED notExtract

\* fetch returned b"": `if content:` is false for empty bytes as well, so
\* the same `break`
FetchEmptyBody ==
    /\ InLoop
    /\ fetchLog' = Append(fetchLog, Fetched("empty"))
    /\ epc' = "returned"
    /\ UNCHANGED <<total_pages, delay, page_number, data, parseLog, sleepLog>>
    /\ UNCHANGED notExtract

\* the page has no collection-card: `if not cards: ... continue`
PageNoCards ==
    /\ InLoop
    /\ fetchLog' = Append(fetchLog, Fetched("nocards"))
    /\ page_number' = page_number + 1
    /\ UNCHANGED <<total_pages, delay, data, epc, parseLog, sleepLog>>
    /\ UNCHANGED notExtract

\* building or searching the soup raises: `except Exception: ... continue`
PageParseError ==
    /\ InLoop
    /\ fetchLog' = Append(fetchLog, Fetched("unparsable"))
    /\ page_number' = page_number + 1
    /\ UNCHANGED <<total_pages, delay, data, epc, parseLog, sleepLog>>
    /\ UNCHANGED notExtract

\* a page loop that elides the sleep after the last configured page
PageCards_no_trailing_sleep ==
    /\ InLoop
    /\ \E cards \in CardLists :
         /\ fetchLog' = Append(fetchLog, [Fetched("cards") EXCEPT !.cards = Len(cards)])
         /\ parseLog' = parseLog \o ParseCalls(cards, page_number)
         /\ data' = data \o PageRecords(cards, page_number, 1)
    /\ sleepLog' = IF page_number = total_pages THEN sleepLog
                   ELSE Append(sleepLog, [page |-> page_number, seconds |-> delay])
    /\ page_number' = page_number + 1
    /\ UNCHANGED <<total_pages, delay, epc>>
    /\ UNCHANGED notExtract

\* the page has entries: each is parsed, a record is appended for each one
\* the parser returns a record for, then time.sleep(delay)
PageCards ==
    /\ InLoop
    /\ \E cards \in CardLists :
         /\ fetchLog' = Append(fetchLog, [Fetched("cards") EXCEPT !.cards = Len(cards)])
         /\ parseLog' = parseLog \o ParseCalls(cards, page_number)
         /\ data' = data \o PageRecords(cards, page_number, 1)
    /\ sleepLog' = Append(sleepLog, [page |-> page_number, seconds |-> delay])
    /\ page_number' = page_number + 1
    /\ UNCHANGED <<total_pages, delay, epc>>
    /\ UNCHANGED notExtract

\* range(1, total_pages + 1) is exhausted: `return data`
LoopEnd ==
    /\ epc = "loop"
    /\ page_number > total_pages
    /\ epc' = "returned"
    /\ UNCHANGED <<total_pages, delay, page_number, data, fetchLog, parseLog, sleepLog>>
    /\ UNCHANGED notExtract

---------------------------------------------------------------------------
(* Tables (pandas DataFrames).  A table is its column names and its rows;  *)
(* a row keeps its index label and one cell per column.  A cell is a text  *)
(* (object dtype), a float, an integer, a datetime or the null marker NaN. *)
(* Floats are kept exactly, in hundredths.                                 *)

FloatScale == 100

StrCell(s)      == [kind |-> "str",      num |-> 0, text |-> s, at |-> NoInstant]
FloatCell(n)    == [kind |-> "float",    num |-> n, text |-> <<>>, at |-> NoInstant]
IntCell(n)      == [kind |-> "int",      num |-> n, text |-> <<>>, at |-> NoInstant]
DatetimeCell(t) == [kind |-> "datetime", num |-> 0, text |-> <<>>, at |-> t]
NaN         == [kind |-> "nan",      num |-> 0, text |-> <<>>, at |-> NoInstant]

\* the columns of a table built from the parser's records
COLUMNS == <<"Title", "Price", "Rating", "Colors", "Size", "Gender", "Timestamp">>

\* pd.DataFrame(): no columns, no rows
EmptyFrame == [columns |-> <<>>, rows |-> <<>>]

HasColumn(df, name) == \E i \in 1..Len(df.columns) : df.columns[i] = name

\* the value of a digit string
DigitVal(c) ==
    CASE c = "0" -> 0 [] c = "1" -> 1 [] c = "2" -> 2 [] c = "3" -> 3 [] c = "4" -> 4
      [] c = "5" -> 5 [] c = "6" -> 6 [] c = "7" -> 7 [] c = "8" -> 8 [] c = "9" -> 9

RECURSIVE DigitsVal(_)
DigitsVal(s) ==
    IF Len(s) = 0 THEN 0 ELSE DigitsVal(SubSeq(s, 1, Len(s) - 1)) * 10 + DigitVal(s[Len(s)])

AllDigits(s) == \A i \in 1..Len(s) : s[i] \in Digit

\* float(text): digits with an optional fraction, surrounding whitespace
\* allowed; anything else is a ValueError.  The value is in hundredths
\* (the texts of the model have at most two fraction digits).
ParseFloat(s) ==
    LET t == Strip(s)
        dots == {i \in 1..Len(t) : t[i] = "."}
        dot == IF dots = {} THEN Len(t) + 1 ELSE CHOOSE i \in dots : \A j \in dots : i <= j
        whole == SubSeq(t, 1, dot - 1)
        frac == SubSeq(t, dot + 1, Len(t))
        frac2 == SubSeq(frac \o <<"0", "0">>, 1, 2)
    IN  IF Len(whole) + Len(frac) > 0 /\ AllDigits(whole) /\ AllDigits(frac)
        THEN [ok |-> TRUE, num |-> DigitsVal(whole) * FloatScale + DigitsVal(frac2)]
        ELSE [ok |-> FALSE, num |-> 0]

\* Series.astype(float) on one cell: text is converted, NaN stays NaN
AsFloat(cell) ==
    IF cell.kind = "str"
    THEN (LET f == ParseFloat(cell.text)
          IN  IF f.ok THEN [ok |-> TRUE, cell |-> FloatCell(f.num)] ELSE [ok |-> FALSE, cell |-> NaN])
    ELSE [ok |-> TRUE, cell |-> cell]

\* an integer conversion that lets the null marker through
AsInt_lenient(cell) ==
    IF cell.kind = "str" /\ Len(cell.text) > 0 /\ AllDigits(cell.text)
    THEN [ok |-> TRUE, cell |-> IntCell(DigitsVal(cell.text))]
    ELSE [ok |-> TRUE, cell |-> NaN]

\* astype(int) on one cell: text of digits is converted, NaN cannot be
AsInt(cell) ==
    IF cell.kind = "str" /\ Len(cell.text) > 0 /\ AllDigits(cell.text)
    THEN [ok |-> TRUE, cell |-> IntCell(DigitsVal(cell.text))]
    ELSE [ok |-> FALSE, cell |-> NaN]

\* Series.str.extract(pattern) on one cell: group 1 of the first match, or NaN
StrExtract(cell, re) ==
    IF cell.kind # "str" THEN NaN
    ELSE LET match == ReSearch(re, cell.text)
         IN  IF match.ok THEN StrCell(match.group1) ELSE NaN

\* Series.str.replace(old, '', regex=False) on a text: every old removed
RECURSIVE Remove(_, _)
Remove(s, c) ==
    IF Len(s) = 0 THEN <<>>
    ELSE (IF Head(s) = c THEN <<>> ELSE <<Head(s)>>) \o Remove(Tail(s), c)

---------------------------------------------------------------------------
(* utils/transform.py: the five cleaners.  Each takes a table and returns  *)
(* one, or raises.                                                         *)

\* r'<U+2B50>\s*(\d+\.\d+)'
RatingRe == Regex(<<One({STAR}), Star(Space)>>, <<Plus(Digit), One({"."}), Plus(Digit)>>, <<>>)
\* r'(\d+)'
ColorsRe == Regex(<<>>, <<Plus(Digit)>>, <<>>)

\* TRANSFORMATION_CONFIG
USD_TO_IDR_RATE == 16000
PRICE_DECIMAL_PLACES == 1

Done(df) == [raised |-> FALSE, df |-> df]
Raised == [raised |-> TRUE, df |-> EmptyFrame]

\* a filter that keeps the sentinel rows
KeepRating_all(row) == TRUE

\* df['Rating'] != 'Invalid Rating'
KeepRating(row) == row.Rating # StrCell(DEFAULT_VALUES.rating)

\* a rating cleaner without the sentinel filter
RatingCleaner_clean_no_filter(df) ==
    IF ~HasColumn(df, "Rating") THEN Raised
    ELSE LET Extracted(row) == [row EXCEPT !.Rating = StrExtract(row.Rating, RatingRe)]
             rows1 == [i \in 1..Len(df.rows) |-> Extracted(df.rows[i])]
             Converted(row) == [row EXCEPT !.Rating = AsFloat(row.Rating).cell]
         IN  IF \E i \in 1..Len(rows1) : ~AsFloat(rows1[i].Rating).ok
             THEN Raised
             ELSE Done([df EXCEPT !.rows = [i \in 1..Len(rows1) |-> Converted(rows1[i])]])

\* RatingCleaner.clean
RatingCleaner_clean(df) ==
    IF ~HasColumn(df, "Rating") THEN Raised
    ELSE LET kept == SelectSeq(df.rows, KeepRating)
             Extracted(row) == [row EXCEPT !.Rating = StrExtract(row.Rating, RatingRe)]
             rows1 == [i \in 1..Len(kept) |-> Extracted(kept[i])]
             Converted(row) == [row EXCEPT !.Rating = AsFloat(row.Rating).cell]
         IN  IF \E i \in 1..Len(rows1) : ~AsFloat(rows1[i].Rating).ok
             THEN Raised
             ELSE Done([df EXCEPT !.rows = [i \in 1..Len(rows1) |-> Converted(rows1[i])]])

\* an optional constructor argument: None, or a value
None == [given |-> FALSE, v |-> 0]
Some(v) == [given |-> TRUE, v |-> v]
\* `arg or fallback`
OrElse(arg, fallback) == IF arg.given /\ arg.v # 0 THEN arg.v ELSE fallback

\* PriceCleaner.__init__
PriceCleaner(usd_to_idr_rate, decimal_places) ==
    [usd_to_idr_rate |-> OrElse(usd_to_idr_rate, USD_TO_IDR_RATE),
     decimal_places  |-> OrElse(decimal_places, PRICE_DECIMAL_PLACES)]

RECURSIVE Pow10(_)
Pow10(n) == IF n <= 0 THEN 1 ELSE 10 * Pow10(n - 1)

\* Series.round(d) of a non-negative value in hundredths: to the nearest
\* multiple of 10^-d, ties to the even one
Round(x, d) ==
    IF d >= 2 THEN x
    ELSE LET unit == Pow10(2 - d)
             q == x \div unit
             r == x % unit
         IN  IF 2 * r < unit THEN q * unit
             ELSE IF 2 * r > unit THEN (q + 1) * unit
             ELSE IF q % 2 = 0 THEN q * unit ELSE (q + 1) * unit

\* the table after the first assignment of PriceCleaner.clean: '$' and ','
\* removed from the Price texts
PriceStripped(df) ==
    LET Stripped(row) ==
            [row EXCEPT !.Price =
                IF row.Price.kind = "str"
                THEN StrCell(Remove(Remove(row.Price.text, "$"), ","))
                ELSE row.Price]
    IN  [df EXCEPT !.rows = [i \in 1..Len(df.rows) |-> Stripped(df.rows[i])]]

\* PriceCleaner.clean
PriceCleaner_clean(self, df) ==
    IF ~HasColumn(df, "Price") THEN Raised
    ELSE LET rows1 == PriceStripped(df).rows
             Converted(row) ==
                 [row EXCEPT !.Price =
                     LET f == AsFloat(row.Price).cell
                     IN  IF f.kind = "float"
                         THEN FloatCell(Round(f.num * self.usd_to_idr_rate, self.decimal_places))
                         ELSE f]
         IN  IF \E i \in 1..Len(rows1) : ~AsFloat(rows1[i].Price).ok
             THEN Raised
             ELSE Done([df EXCEPT !.rows = [i \in 1..Len(rows1) |-> Converted(rows1[i])]])

\* ColorsCleaner.clean
ColorsCleaner_clean(df) ==
    IF ~HasColumn(df, "Colors") THEN Raised
    ELSE LET Extracted(row) == [row EXCEPT !.Colors = StrExtract(row.Colors, ColorsRe)]
             rows1 == [i \in 1..Len(df.rows) |-> Extracted(df.rows[i])]
             Converted(row) == [row EXCEPT !.Colors = AsInt(row.Colors).cell]
         IN  IF \E i \in 1..Len(rows1) : ~AsInt(rows1[i].Colors).ok
             THEN Raised
             ELSE Done([df EXCEPT !.rows = [i \in 1..Len(rows1) |-> Converted(rows1[i])]])

\* AttributeCleaner.clean: astype(str) leaves a text as it is
AttributeCleaner_clean(df) ==
    IF ~HasColumn(df, "Size") \/ ~HasColumn(df, "Gender") THEN Raised
    ELSE Done(df)

\* strftime('%Y-%m-%dT%H:%M:%S.%f')
IsoFormat(t) == <<t.date, "T", t.time, ".", t.micro>>

\* a timestamp text: "<date> <time>", as a date token, a separator and a
\* time token
TimestampText(t) == <<t.date, " ", t.time>>

\* pd.to_datetime(text, errors='coerce'): the instant, or NaT
ToDatetime(cell) ==
    IF cell.kind = "datetime" THEN cell
    ELSE IF cell.kind = "str"
            /\ \E t \in Instants : cell.text = TimestampText(t)
         THEN DatetimeCell(Instant(cell.text[1], cell.text[3], "000000"))
         ELSE NaN

\* a timestamp cleaner that parses with errors='raise'
TimestampCleaner_clean_strict(df) ==
    IF ~HasColumn(df, "Timestamp") THEN Raised
    ELSE IF \E i \in 1..Len(df.rows) : ToDatetime(df.rows[i].Timestamp).kind # "datetime"
         THEN Raised
         ELSE LET Formatted(row) ==
                      [row EXCEPT !.Timestamp = StrCell(IsoFormat(ToDatetime(row.Timestamp).at))]
              IN  Done([df EXCEPT !.rows = [i \in 1..Len(df.rows) |-> Formatted(df.rows[i])]])

\* TimestampCleaner.clean
TimestampCleaner_clean(df) ==
    IF ~HasColumn(df, "Timestamp") THEN Raised
    ELSE LET Formatted(row) ==
                 [row EXCEPT !.Timestamp =
                     LET t == ToDatetime(row.Timestamp)
                     IN  IF t.kind = "datetime" THEN StrCell(IsoFormat(t.at)) ELSE NaN]
         IN  Done([df EXCEPT !.rows = [i \in 1..Len(df.rows) |-> Formatted(df.rows[i])]])

---------------------------------------------------------------------------
(* FashionDataTransformer *)

\* FashionDataTransformer.__init__: PriceCleaner() with no arguments
FashionDataTransformer == [price_cleaner |-> PriceCleaner(None, None)]

\* a failure boundary that hands back what was cleaned so far
OnException_partial(sofar) == sofar

\* `except Exception: ... return pd.DataFrame()`
OnException(sofar) == EmptyFrame

(* Raw tables given to transform *)

Txt_Star45    == <<STAR, " ", "4", ".", "5">>
Txt_Star4     == <<STAR, " ", "4">>
Txt_Price10   == <<"$", "1", "0", ".", "0", "0">>
Txt_Price1234 == <<"$", "1", ",", "2", "3", "4", ".", "5", "0">>
Txt_Three     == <<"3">>
Txt_M         == <<"M">>
Txt_Men       == <<"M", "e", "n">>
Txt_BadDate   == <<"not-a-date">>
Noon          == Instant("2025-05-10", "10:00:00", "000000")

RatingTexts == {Txt_Star45, Txt_Star4, DEFAULT_VALUES.rating}
PriceTexts  == {Txt_Price10, Txt_Price1234, DEFAULT_VALUES.price}
ColorsTexts == {Txt_Three, Txt_Colors3, DEFAULT_VALUES.colors}
TimestampCells == {DatetimeCell(Noon), StrCell(TimestampText(Noon)), StrCell(Txt_BadDate)}

\* a raw row, before it gets its index label
RawRow(rating, price, colors, timestamp) ==
    [index |-> 0, Title |-> StrCell(Txt_Tee), Price |-> StrCell(price),
     Rating |-> StrCell(rating), Colors |-> StrCell(colors), Size |-> StrCell(Txt_M),
     Gender |-> StrCell(Txt_Men), Timestamp |-> timestamp]

\* the rows tried: every rating with every price, every colors text with
\* every timestamp, and a sentinel-rating row with the colors sentinel
RawRows ==
    {RawRow(r, p, Txt_Three, DatetimeCell(Noon)) : r \in RatingTexts, p \in PriceTexts}
    \cup {RawRow(Txt_Star45, Txt_Price10, c, t) : c \in ColorsTexts, t \in TimestampCells}
    \cup {RawRow(DEFAULT_VALUES.rating, Txt_Price10, DEFAULT_VALUES.colors, DatetimeCell(Noon))}

\* pd.DataFrame(records): the rows labelled 0, 1, ... in order
Frame(rows) ==
    [columns |-> COLUMNS, rows |-> [i \in 1..Len(rows) |-> [rows[i] EXCEPT !.index = i - 1]]]

RawTables ==
    {EmptyFrame} \cup {Frame(rows) : rows \in UNION {[1..n -> RawRows] : n \in 0..MaxRows}}

TransformInit ==
    /\ df_raw \in RawTables
    /\ tpc = "Rating"
    /\ df_current = EmptyFrame
    /\ df_cleaned = EmptyFrame
    /\ invoked = <<>>
    /\ raisedIn = "none"
    /\ price_args = [usd_to_idr_rate |-> None, decimal_places |-> None]
    /\ price_cleaner = FashionDataTransformer.price_cleaner

TransformIdle ==
    /\ df_raw = EmptyFrame
    /\ tpc = "idle"
    /\ df_current = EmptyFrame
    /\ df_cleaned = EmptyFrame
    /\ invoked = <<>>
    /\ raisedIn = "none"
    /\ price_args = [usd_to_idr_rate |-> None, decimal_places |-> None]
    /\ price_cleaner = FashionDataTransformer.price_cleaner

\* a transform whose cleaners work on the caller's table itself
CallersTable_shared(given, r) == IF r.raised THEN given ELSE r.df

\* The caller's table after a cleaner ran.  transform works on data.copy()
\* and RatingCleaner on a further copy of the filtered rows, so the column
\* assignments of the cleaners never reach the table the caller holds.
CallersTable(given, r) == given

\* One step of transform's try block: cleaner `name` was applied to `from`
\* with result r.  If it raised, the except clause returns; otherwise the
\* result goes to the next cleaner, or is returned after the last one.
CleanerStep(name, from, r, next) ==
    /\ tpc = name
    /\ invoked' = Append(invoked, name)
    /\ IF r.raised
       THEN /\ raisedIn' = name
            /\ df_cleaned' = OnException(from)
            /\ tpc' = "returned"
            /\ UNCHANGED df_current
       ELSE /\ df_current' = r.df
            /\ tpc' = next
            /\ df_cleaned' = IF next = "returned" THEN r.df ELSE df_cleaned
            /\ UNCHANGED raisedIn
    /\ df_raw' = CallersTable(df_raw, r)
    /\ UNCHANGED <<price_args, price_cleaner>>
    /\ UNCHANGED notTransform

\* df = data.copy(); df = self.rating_cleaner.clean(df)
CleanRating ==
    CleanerStep("Rating", df_raw, RatingCleaner_clean(df_raw), "Price")

\* df = self.price_cleaner.clean(df)
CleanPrice ==
    CleanerStep("Price", df_current,
                PriceCleaner_clean(price_cleaner, df_current),
                "Colors")

\* df = self.colors_cleaner.clean(df)
CleanColors ==
    CleanerStep("Colors", df_current, ColorsCleaner_clean(df_current), "Attribute")

\* df = self.attribute_cleaner.clean(df)
CleanAttribute ==
    CleanerStep("Attribute", df_current, AttributeCleaner_clean(df_current), "Timestamp")

\* df = self.timestamp_cleaner.clean(df); return df
CleanTimestamp ==
    CleanerStep("Timestamp", df_current, TimestampCleaner_clean(df_current), "returned")

---------------------------------------------------------------------------
(* PriceCleaner on its own: constructed with drawn arguments and applied   *)
(* to a table, as its callers and unit tests do.                           *)

\* the exchange rates and precisions a caller supplies (None: not supplied)
RateArgs   == {None, Some(0), Some(1), Some(15000)}
PlacesArgs == {None, Some(0), Some(1), Some(2)}

PriceRows == {RawRow(Txt_Star45, p, Txt_Three, DatetimeCell(Noon)) : p \in PriceTexts}
PriceTables == {Frame(rows) : rows \in UNION {[1..n -> PriceRows] : n \in 0..MaxRows}}

\* a cleaner object not constructed yet
NoCleaner == [usd_to_idr_rate |-> 0, decimal_places |-> 0]

PriceInit ==
    /\ df_raw \in PriceTables
    /\ tpc = "new"
    /\ df_current = EmptyFrame
    /\ df_cleaned = EmptyFrame
    /\ invoked = <<>>
    /\ raisedIn = "none"
    /\ price_args \in [usd_to_idr_rate : RateArgs, decimal_places : PlacesArgs]
    /\ price_cleaner = NoCleaner

\* PriceCleaner(usd_to_idr_rate, decimal_places)
PriceCleanerNew ==
    /\ tpc = "new"
    /\ price_cleaner' = PriceCleaner(price_args.usd_to_idr_rate, price_args.decimal_places)
    /\ tpc' = "clean"
    /\ UNCHANGED <<df_raw, df_current, df_cleaned, invoked, raisedIn, price_args>>
    /\ UNCHANGED notTransform

\* cleaner.clean(df): the table returned, or the exception raised to the
\* caller.  clean assigns the Price column of the table object it is given:
\* df_raw is that table as it was at the call, df_current the same object
\* after the call (when the conversion raises, with the texts already stripped).
PriceCleanerClean ==
    /\ tpc = "clean"
    /\ LET r == PriceCleaner_clean(price_cleaner, df_raw)
       IN  /\ raisedIn' = IF r.raised THEN "Price" ELSE "none"
           /\ df_cleaned' = r.df
           /\ df_current' = IF ~r.raised THEN r.df
                            ELSE IF HasColumn(df_raw, "Price") THEN PriceStripped(df_raw)
                            ELSE df_raw
    /\ invoked' = Append(invoked, "Price")
    /\ tpc' = "returned"
    /\ UNCHANGED <<df_raw, price_args, price_cleaner>>
    /\ UNCHANGED notTransform

---------------------------------------------------------------------------
(* utils/load.py: the three loaders.  Each destination step either         *)
(* succeeds or fails with an exception; `fault` names the step that fails  *)
(* in a call ("none" when every step succeeds).  A loader returns what     *)
(* load returns, or raises, together with the destination as it leaves it, *)
(* the steps it attempted, and the caller's table as it leaves it.         *)

Loaded(value, dest, steps, table) ==
    [raised |-> FALSE, value |-> value, dest |-> dest, steps |-> steps, table |-> table]
LoaderRaised(dest, steps, table) ==
    [raised |-> TRUE,  value |-> FALSE, dest |-> dest, steps |-> steps, table |-> table]

\* the steps of a load that are attempted: all of them, or those up to and
\* including the one that fails (the exception leaves the try block)
RECURSIVE Attempted(_, _)
Attempted(steps, fault) ==
    IF Len(steps) = 0 THEN <<>>
    ELSE IF Head(steps) = fault THEN <<fault>>
    ELSE <<Head(steps)>> \o Attempted(Tail(steps), fault)

\* the attempted steps that succeeded
Succeeded(tried, fault) == {tried[i] : i \in 1..Len(tried)} \ {fault}

\* a destination that holds nothing, one that holds a table, and one left
\* half written
Nothing      == [state |-> "nothing", columns |-> <<>>, rows |-> <<>>]
Holding(t)   == [state |-> "written", columns |-> t.columns, rows |-> t.rows]
HalfWritten  == [state |-> "partial", columns |-> <<>>, rows |-> <<>>]

\* CsvDataLoader.load: data.to_csv(filename, index=False) inside try
CsvFaults == {"none", "open", "write"}
CsvDataLoader_load(table, kwargs, fault, file) ==
    LET tried == Attempted(<<"open", "write">>, fault)
    IN  CASE fault = "none"  -> Loaded(TRUE, Holding(table), tried, table)
          [] fault = "open"  -> Loaded(FALSE, file, tried, table)
          [] fault = "write" -> Loaded(FALSE, HalfWritten, tried, table)

\* str.lower() of a column name
Lower(name) ==
    CASE name = "Title" -> "title" [] name = "Price" -> "price"
      [] name = "Rating" -> "rating" [] name = "Colors" -> "colors"
      [] name = "Size" -> "size" [] name = "Gender" -> "gender"
      [] name = "Timestamp" -> "timestamp" [] OTHER -> name

\* a PostgreSQL loader whose create_engine call is outside the try block
PostgreSQLDataLoader_load_unguarded(table, kwargs, fault, dbt) ==
    LET data_for_sql == [table EXCEPT !.columns = [i \in 1..Len(table.columns) |->
                                                     Lower(table.columns[i])]]
        tried == Attempted(<<"create_engine", "to_sql">>, fault)
    IN  CASE fault = "none" ->
               Loaded(TRUE, [state |-> "written", columns |-> data_for_sql.columns,
                             rows |-> dbt.rows \o data_for_sql.rows], tried, table)
          [] fault = "create_engine" -> LoaderRaised(dbt, tried, table)
          [] fault = "to_sql" -> Loaded(FALSE, dbt, tried, table)

\* a PostgreSQL loader that renames the columns of the table it is given
\* (data_for_sql = data, without the copy)
PostgreSQLDataLoader_load_inplace(table, kwargs, fault, dbt) ==
    LET data_for_sql == [table EXCEPT !.columns = [i \in 1..Len(table.columns) |->
                                                     Lower(table.columns[i])]]
        tried == Attempted(<<"create_engine", "to_sql">>, fault)
    IN  CASE fault = "none" ->
               Loaded(TRUE, [state |-> "written", columns |-> data_for_sql.columns,
                             rows |-> dbt.rows \o data_for_sql.rows], tried, data_for_sql)
          [] fault = "create_engine" -> Loaded(FALSE, dbt, tried, data_for_sql)
          [] fault = "to_sql" -> Loaded(FALSE, dbt, tried, data_for_sql)

\* PostgreSQLDataLoader.load: copy, lower-case the columns of the copy,
\* create_engine, to_sql(..., if_exists='append'), all inside try
PostgresFaults == {"none", "create_engine", "to_sql"}
PostgreSQLDataLoader_load(table, kwargs, fault, dbt) ==
    LET data_for_sql == [table EXCEPT !.columns = [i \in 1..Len(table.columns) |->
                                                     Lower(table.columns[i])]]
        tried == Attempted(<<"create_engine", "to_sql">>, fault)
    IN  CASE fault = "none" ->
               Loaded(TRUE, [state |-> "written", columns |-> data_for_sql.columns,
                             rows |-> dbt.rows \o data_for_sql.rows], tried, table)
          [] fault = "create_engine" -> Loaded(FALSE, dbt, tried, table)
          [] fault = "to_sql" -> Loaded(FALSE, dbt, tried, table)

\* the range after values().clear()
Cleared == [state |-> "cleared", columns |-> <<>>, rows |-> <<>>]

\* a spreadsheet loader that writes first and clears afterwards
GoogleSheetsDataLoader_load_update_first(table, kwargs, fault, range) ==
    LET tried == Attempted(<<"credentials", "build", "update", "clear">>, fault)
        ok == Succeeded(tried, fault)
    IN  Loaded(fault = "none",
               IF "clear" \in ok THEN Cleared
               ELSE IF "update" \in ok THEN Holding(table) ELSE range,
               tried, table)

\* GoogleSheetsDataLoader.load: credentials, build, clear, update, in this
\* order and all inside try; a step that raises ends the try block
SheetsFaults == {"none", "credentials", "build", "clear", "update"}
GoogleSheetsDataLoader_load(table, kwargs, fault, range) ==
    LET tried == Attempted(<<"credentials", "build", "clear", "update">>, fault)
        ok == Succeeded(tried, fault)
    IN  Loaded(fault = "none",
               IF "update" \in ok THEN Holding(table)
               ELSE IF "clear" \in ok THEN Cleared ELSE range,
               tried, table)

---------------------------------------------------------------------------
(* utils/config.py: get_database_config, and the defaults of load_to_all *)

\* os.getenv(name, fallback)
Unset == [set |-> FALSE, text |-> <<>>]
EnvValue(s) == [set |-> TRUE, text |-> s]
GetEnv(value, fallback) == IF value.set THEN value.text ELSE fallback

\* DATABASE_CONFIG["default_port"]
DEFAULT_PORT == 5432
\* str(5432)
DefaultPortText == <<"5", "4", "3", "2">>

\* int(text): digits, surrounding whitespace allowed; anything else is a
\* ValueError
ParseInt(s) ==
    LET t == Strip(s)
    IN  IF Len(t) > 0 /\ AllDigits(t) THEN [ok |-> TRUE, num |-> DigitsVal(t)]
        ELSE [ok |-> FALSE, num |-> 0]

\* get_database_config(): raises when POSTGRES_PORT is not an integer text
get_database_config(env) ==
    LET port == ParseInt(GetEnv(env.POSTGRES_PORT, DefaultPortText))
    IN  IF ~port.ok THEN [raised |-> TRUE, value |-> [host |-> "localhost", port |-> 0,
                                                      table_name |-> "fashion_products"]]
        ELSE [raised |-> FALSE,
              value |-> [host |-> "localhost", port |-> port.num,
                         table_name |-> "fashion_products"]]

\* {**default, **(override or {})} for the keys an override may carry
Merge(dflt, override) ==
    IF override.given THEN [dflt EXCEPT !.port = override.port] ELSE dflt

NoOverride == [given |-> FALSE, port |-> 0]
PortOverride(n) == [given |-> TRUE, port |-> n]

---------------------------------------------------------------------------
(* MultiDestinationDataLoader.load_to_all *)

\* cleaned tables handed to the loaders
TypedRow(i, rating, price) ==
    [index |-> i, Title |-> StrCell(Txt_Tee), Price |-> FloatCell(price),
     Rating |-> FloatCell(rating), Colors |-> IntCell(3), Size |-> StrCell(Txt_M),
     Gender |-> StrCell(Txt_Men), Timestamp |-> StrCell(IsoFormat(Noon))]

LoadTables ==
    {EmptyFrame,
     [columns |-> COLUMNS, rows |-> <<TypedRow(0, 450, 16000000)>>],
     [columns |-> COLUMNS, rows |-> <<TypedRow(0, 450, 16000000), TypedRow(1, 390, 1975200000)>>]}

Environments ==
    {[POSTGRES_PORT |-> v] : v \in {Unset, EnvValue(<<"5", "4", "3", "3">>),
                                    EnvValue(<<"a", "b", "c">>)}}

\* what the destinations hold before the call: nothing, or an earlier run's table
Earlier == [columns |-> COLUMNS, rows |-> <<TypedRow(0, 480, 40000000)>>]

LoadInit ==
    /\ load_args \in [data : LoadTables,
                      filename_csv : {"None", "out.csv"},
                      db_config : {NoOverride, PortOverride(6543)}]
    /\ environ \in Environments
    /\ lpc = "call"
    /\ results = <<>>
    /\ loaderCalls = <<>>
    /\ \E before \in {Nothing, Holding(Earlier)} :
         /\ csv_file = before
         /\ sheet = before
         /\ db_table = [before EXCEPT !.columns = [i \in 1..Len(before.columns) |->
                                                     Lower(before.columns[i])]]

LoadIdle ==
    /\ load_args = [data |-> EmptyFrame, filename_csv |-> "None", db_config |-> NoOverride]
    /\ environ = [POSTGRES_PORT |-> Unset]
    /\ lpc = "idle"
    /\ results = <<>>
    /\ loaderCalls = <<>>
    /\ csv_file = Nothing
    /\ db_table = Nothing
    /\ sheet = Nothing

\* the keyword arguments each loader is called with
CsvKwargs ==
    [filename |-> IF load_args.filename_csv = "None" THEN "fashion_data.csv"
                  ELSE load_args.filename_csv]
DbKwargs(default_db_config) == Merge(default_db_config, load_args.db_config)
SheetsKwargs == [spreadsheet_id |-> "default_spreadsheet_id", range_name |-> "Sheet1!A1"]

\* one loader call: the table it was given, the step that failed, the steps
\* attempted, how it ended, and the table as the loader left it
Call(loader, kwargs, fault, out) ==
    [loader |-> loader, given |-> load_args.data, fault |-> fault, steps |-> out.steps,
     raised |-> out.raised, value |-> out.value, left |-> out.table]

\* the head of load_to_all, up to the merge of the configurations:
\* get_database_config() runs here, outside any try block
LoadToAllConfigure ==
    /\ lpc = "call"
    /\ lpc' = IF get_database_config(environ).raised THEN "raised" ELSE "csv"
    /\ results' = <<>>
    /\ UNCHANGED <<load_args, environ, loaderCalls, csv_file, db_table, sheet>>
    /\ UNCHANGED notLoad

\* results['csv'] = self.csv_loader.load(data, filename=filename_csv)
LoadCsv ==
    /\ lpc = "csv"
    /\ \E fault \in CsvFaults :
         LET out == CsvDataLoader_load(load_args.data, CsvKwargs, fault, csv_file)
         IN  /\ loaderCalls' = Append(loaderCalls, Call("csv", CsvKwargs, fault, out))
             /\ csv_file' = out.dest
             /\ load_args' = [load_args EXCEPT !.data = out.table]
             /\ IF out.raised
                THEN lpc' = "raised" /\ UNCHANGED results
                ELSE lpc' = "postgresql" /\ results' = ("csv" :> out.value) @@ results
    /\ UNCHANGED <<environ, db_table, sheet>>
    /\ UNCHANGED notLoad

\* a second assignment that stores the value under the csv key
LoadPostgres_wrong_key ==
    /\ lpc = "postgresql"
    /\ \E fault \in PostgresFaults :
         LET kwargs == DbKwargs(get_database_config(environ).value)
             out == PostgreSQLDataLoader_load(load_args.data, kwargs, fault, db_table)
         IN  /\ loaderCalls' = Append(loaderCalls, Call("postgresql", kwargs, fault, out))
             /\ db_table' = out.dest
             /\ load_args' = [load_args EXCEPT !.data = out.table]
             /\ IF out.raised
                THEN lpc' = "raised" /\ UNCHANGED results
                ELSE /\ lpc' = "google_sheets"
                     /\ results' = ("postgresql" :> results["csv"]) @@ results
    /\ UNCHANGED <<environ, csv_file, sheet>>
    /\ UNCHANGED notLoad

\* results['postgresql'] = self.postgres_loader.load(data, **db_config)
LoadPostgres ==
    /\ lpc = "postgresql"
    /\ \E fault \in PostgresFaults :
         LET kwargs == DbKwargs(get_database_config(environ).value)
             out == PostgreSQLDataLoader_load(load_args.data, kwargs, fault, db_table)
         IN  /\ loaderCalls' = Append(loaderCalls, Call("postgresql", kwargs, fault, out))
             /\ db_table' = out.dest
             /\ load_args' = [load_args EXCEPT !.data = out.table]
             /\ IF out.raised
                THEN lpc' = "raised" /\ UNCHANGED results
                ELSE /\ lpc' = "google_sheets"
                     /\ results' = ("postgresql" :> out.value) @@ results
    /\ UNCHANGED <<environ, csv_file, sheet>>
    /\ UNCHANGED notLoad

\* results['google_sheets'] = self.sheets_loader.load(data, **sheets_config);
\* return results
LoadSheets ==
    /\ lpc = "google_sheets"
    /\ \E fault \in SheetsFaults :
         LET out == GoogleSheetsDataLoader_load(load_args.data, SheetsKwargs, fault, sheet)
         IN  /\ loaderCalls' = Append(loaderCalls, Call("google_sheets", SheetsKwargs, fault, out))
             /\ sheet' = out.dest
             /\ load_args' = [load_args EXCEPT !.data = out.table]
             /\ IF out.raised
                THEN lpc' = "raised" /\ UNCHANGED results
                ELSE lpc' = "returned" /\ results' = ("google_sheets" :> out.value) @@ results
    /\ UNCHANGED <<environ, csv_file, db_table>>
    /\ UNCHANGED notLoad

---------------------------------------------------------------------------
(* main.py: ETLPipeline.run.  The run drives the extractor, the            *)
(* transformer and the multi-destination loader above: a stage that calls  *)
(* a component starts it, the component's own actions run, and the stage   *)
(* resumes when the component has returned or raised.                      *)

\* the total_pages argument: an integer, or a value that is not one
PagesArg(n) == [is_int |-> TRUE, n |-> n]
NotAnInt    == [is_int |-> FALSE, n |-> 0]
RunPages    == {NotAnInt, PagesArg(0), PagesArg(1), PagesArg(2)}

\* the records the injected parser yields: per entry position, a well-formed
\* record, one with the rating sentinel, or one with the price sentinel
CatalogRows ==
    {RawRow(Txt_Star45, Txt_Price10, Txt_Colors3, DatetimeCell(Noon)),
     RawRow(DEFAULT_VALUES.rating, Txt_Price10, Txt_Colors3, DatetimeCell(Noon)),
     RawRow(Txt_Star45, DEFAULT_VALUES.price, Txt_Colors3, DatetimeCell(Noon))}
Catalogs == [1..MaxCards -> CatalogRows]

\* DataFrame.empty: some axis has length 0
IsEmpty(df) == Len(df.columns) = 0 \/ Len(df.rows) = 0

\* one call of a stage method: what it was given, and how it ended
StageCall(stage, pages, given, raised, returned) ==
    [stage |-> stage, pages |-> pages, given |-> given, raised |-> raised,
     returned |-> returned]

\* a run without the catch-all: the exception reaches the caller
RunExcept_reraise(stage) == "raised"

\* `except Exception as e: print(...)`: run returns None
RunExcept(stage) == "returned"

\* a load stage handed the raw table
TableForLoad_raw(log) == log[1].returned

\* self.load_data(df_cleaned): the table transform_data returned
TableForLoad(log) == log[Len(log)].returned

RunInit ==
    /\ run_args \in [total_pages : RunPages]
    /\ catalog \in Catalogs
    /\ rpc = "call"
    /\ stageLog = <<>>

RunIdle ==
    /\ run_args = [total_pages |-> PagesArg(0)]
    /\ catalog = [i \in 1..MaxCards |-> RawRow(Txt_Star45, Txt_Price10, Txt_Colors3,
                                                DatetimeCell(Noon))]
    /\ rpc = "idle"
    /\ stageLog = <<>>

\* the components before the run calls them: the process environment is
\* as the run finds it, and the destinations hold an earlier run's table
ComponentsAtRest ==
    /\ TextIdle /\ ParseIdle /\ ExtractIdle /\ TransformIdle
    /\ load_args = [data |-> EmptyFrame, filename_csv |-> "None", db_config |-> NoOverride]
    /\ environ \in Environments
    /\ lpc = "idle"
    /\ results = <<>>
    /\ loaderCalls = <<>>
    /\ csv_file = Holding(Earlier)
    /\ sheet = Holding(Earlier)
    /\ db_table = [Holding(Earlier) EXCEPT !.columns = [i \in 1..Len(COLUMNS) |->
                                                          Lower(COLUMNS[i])]]

\* run -> extract_data(total_pages) -> data_extractor.extract(total_pages=...):
\* range(1, total_pages + 1) raises TypeError when total_pages is no
\* integer; otherwise the page loop starts, with the default delay of 2
RunExtractCall ==
    /\ rpc = "call"
    /\ IF ~run_args.total_pages.is_int
       THEN /\ stageLog' = Append(stageLog,
                                  StageCall("extract", 0, EmptyFrame, TRUE, EmptyFrame))
            /\ rpc' = RunExcept("extract")
            /\ UNCHANGED extractVars
       ELSE /\ total_pages' = run_args.total_pages.n
            /\ delay' = 2
            /\ page_number' = 1
            /\ data' = <<>>
            /\ epc' = "loop"
            /\ fetchLog' = <<>>
            /\ parseLog' = <<>>
            /\ sleepLog' = <<>>
            /\ rpc' = "extracting"
            /\ UNCHANGED stageLog
    /\ UNCHANGED <<run_args, catalog>>
    /\ UNCHANGED <<textVars, parseVars, transformVars, loadVars>>

\* extract returned: `if not extracted_data: return pd.DataFrame()`,
\* else pd.DataFrame(extracted_data)
RunExtractReturn ==
    /\ rpc = "extracting"
    /\ epc = "returned"
    /\ LET table == IF Len(data) = 0 THEN EmptyFrame
                    ELSE Frame([i \in 1..Len(data) |-> catalog[data[i].entry]])
       IN  stageLog' = Append(stageLog,
                              StageCall("extract", total_pages, EmptyFrame, FALSE, table))
    /\ rpc' = "extracted"
    /\ UNCHANGED <<run_args, catalog>>
    /\ UNCHANGED <<textVars, parseVars, extractVars, transformVars, loadVars>>

\* transform_data(df_raw): `if df_raw.empty: return df_raw`, else
\* self.data_transformer.transform(df_raw)
RunTransformCall ==
    /\ rpc = "extracted"
    /\ LET table == stageLog[Len(stageLog)].returned
       IN  IF IsEmpty(table)
           THEN /\ stageLog' = Append(stageLog,
                                      StageCall("transform", 0, table, FALSE, table))
                /\ rpc' = "transformed"
                /\ UNCHANGED transformVars
           ELSE /\ df_raw' = table
                /\ tpc' = "Rating"
                /\ df_current' = EmptyFrame
                /\ df_cleaned' = EmptyFrame
                /\ invoked' = <<>>
                /\ raisedIn' = "none"
                /\ rpc' = "transforming"
                /\ UNCHANGED <<stageLog, price_args, price_cleaner>>
    /\ UNCHANGED <<run_args, catalog>>
    /\ UNCHANGED <<textVars, parseVars, extractVars, loadVars>>

\* transform returned: `return df_cleaned`
RunTransformReturn ==
    /\ rpc = "transforming"
    /\ tpc = "returned"
    /\ stageLog' = Append(stageLog, StageCall("transform", 0, df_raw, FALSE, df_cleaned))
    /\ rpc' = "transformed"
    /\ UNCHANGED <<run_args, catalog>>
    /\ UNCHANGED <<textVars, parseVars, extractVars, transformVars, loadVars>>

\* a load stage without the emptiness test
RunLoadCall_unguarded ==
    /\ rpc = "transformed"
    /\ load_args' = [data |-> TableForLoad(stageLog), filename_csv |-> "None",
                     db_config |-> NoOverride]
    /\ lpc' = "call"
    /\ results' = <<>>
    /\ loaderCalls' = <<>>
    /\ rpc' = "loading"
    /\ UNCHANGED <<stageLog, environ, csv_file, db_table, sheet>>
    /\ UNCHANGED <<run_args, catalog>>
    /\ UNCHANGED <<textVars, parseVars, extractVars, transformVars>>

\* load_data(df_cleaned): `if df_cleaned.empty: ... return`, else
\* self.data_loader.load_to_all(df_cleaned)
RunLoadCall ==
    /\ rpc = "transformed"
    /\ LET table == TableForLoad(stageLog)
       IN  IF IsEmpty(table)
           THEN /\ stageLog' = Append(stageLog,
                                      StageCall("load", 0, table, FALSE, EmptyFrame))
                /\ rpc' = "returned"
                /\ UNCHANGED loadVars
           ELSE /\ load_args' = [data |-> table, filename_csv |-> "None",
                                 db_config |-> NoOverride]
                /\ lpc' = "call"
                /\ results' = <<>>
                /\ loaderCalls' = <<>>
                /\ rpc' = "loading"
                /\ UNCHANGED <<stageLog, environ, csv_file, db_table, sheet>>
    /\ UNCHANGED <<run_args, catalog>>
    /\ UNCHANGED <<textVars, parseVars, extractVars, transformVars>>

\* load_to_all returned or raised: the results are reported and run prints
\* its last line, or run's except clause takes the exception
RunLoadReturn ==
    /\ rpc = "loading"
    /\ lpc \in {"returned", "raised"}
    /\ stageLog' = Append(stageLog,
                          StageCall("load", 0, load_args.data, lpc = "raised", EmptyFrame))
    /\ rpc' = IF lpc = "raised" THEN RunExcept("load") ELSE "returned"
    /\ UNCHANGED <<run_args, catalog>>
    /\ UNCHANGED <<textVars, parseVars, extractVars, transformVars, loadVars>>

---------------------------------------------------------------------------
(* Specifications *)

InitText == TextInit /\ ParseIdle /\ ExtractIdle /\ TransformIdle /\ LoadIdle /\ RunIdle
NextText == ExtractText
SpecText == InitText /\ [][NextText]_vars

InitParse == ParseInit /\ TextIdle /\ ExtractIdle /\ TransformIdle /\ LoadIdle /\ RunIdle
NextParse == Parse
SpecParse == InitParse /\ [][NextParse]_vars

InitExtract == ExtractInit /\ TextIdle /\ ParseIdle /\ TransformIdle /\ LoadIdle /\ RunIdle
NextExtract ==
    \/ FetchFails
    \/ FetchEmptyBody
    \/ PageNoCards
    \/ PageParseError
    \/ PageCards
    \/ LoopEnd
SpecExtract == InitExtract /\ [][NextExtract]_vars

InitTransform == TransformInit /\ TextIdle /\ ParseIdle /\ ExtractIdle /\ LoadIdle /\ RunIdle
NextTransform ==
    \/ CleanRating
    \/ CleanPrice
    \/ CleanColors
    \/ CleanAttribute
    \/ CleanTimestamp
SpecTransform == InitTransform /\ [][NextTransform]_vars

InitPrice == PriceInit /\ TextIdle /\ ParseIdle /\ ExtractIdle /\ LoadIdle /\ RunIdle
NextPrice ==
    \/ PriceCleanerNew
    \/ PriceCleanerClean
SpecPrice == InitPrice /\ [][NextPrice]_vars

InitLoad == LoadInit /\ TextIdle /\ ParseIdle /\ ExtractIdle /\ TransformIdle /\ RunIdle
NextLoad ==
    \/ LoadToAllConfigure
    \/ LoadCsv
    \/ LoadPostgres
    \/ LoadSheets
SpecLoad == InitLoad /\ [][NextLoad]_vars

InitRun == RunInit /\ ComponentsAtRest
NextRun ==
    \/ RunExtractCall
    \/ FetchFails
    \/ FetchEmptyBody
    \/ PageNoCards
    \/ PageParseError
    \/ PageCards
    \/ LoopEnd
    \/ RunExtractReturn
    \/ RunTransformCall
    \/ CleanRating
    \/ CleanPrice
    \/ CleanColors
    \/ CleanAttribute
    \/ CleanTimestamp
    \/ RunTransformReturn
    \/ RunLoadCall
    \/ LoadToAllConfigure
    \/ LoadCsv
    \/ LoadPostgres
    \/ LoadSheets
    \/ RunLoadReturn
SpecRun == InitRun /\ [][NextRun]_vars

---------------------------------------------------------------------------
(* Properties of extract_text (SpecText) *)

\* the fragments that hold the keyword, and those that also match the pattern
KeywordFrags == {i \in 1..Len(elements) : KeywordIn(elements[i], keyword).value}
MatchingFrags == {i \in KeywordFrags : ReSearch(pattern, elements[i].string).ok}
First(S) == CHOOSE i \in S : \A j \in S : i <= j

\* C7, as stated: only the first fragment that contains the keyword is
\* considered; when the pattern does not match it, the default is returned
\* and no later fragment is tried.
C7_FirstKeywordFragmentOnly ==
    (textResult.done /\ KeywordFrags # {} /\ First(KeywordFrags) \notin MatchingFrags)
        => (~textResult.raised /\ textResult.value = default)

\* C7, amended: extract_text returns the trimmed first group of the first
\* fragment that both contains the keyword and matches the pattern (a
\* keyword fragment the pattern does not match is passed over and later
\* fragments are tried); it returns the default exactly when no fragment
\* does both.
C7_FirstMatchingFragment ==
    textResult.done =>
        /\ ~textResult.raised
        /\ textResult.value =
             IF MatchingFrags = {} THEN default
             ELSE Strip(ReSearch(pattern, elements[First(MatchingFrags)].string).group1)

\* C7 witness: the first keyword fragment fails the pattern, a later one
\* matches, and its capture (not the default) was returned.
C7_Witness ==
    /\ textResult.done
    /\ KeywordFrags # {}
    /\ First(KeywordFrags) \notin MatchingFrags
    /\ MatchingFrags # {}
    /\ textResult.value # default
    /\ textResult.value = <<STAR, " ", "4", ".", "8">>

\* C8: when no fragment's text contains the keyword (the empty list and
\* fragments without text included), extract_text does not raise and
\* returns exactly the default it was given.
C8_DefaultWhenKeywordAbsent ==
    (textResult.done
       /\ \A i \in 1..Len(elements) :
            ~(elements[i].has /\ Contains(elements[i].string, keyword)))
        => (~textResult.raised /\ textResult.value = default)

\* C8 witness: a list with a textless fragment and no keyword fragment, a
\* caller-given default other than "N/A", and that default returned.
C8_Witness ==
    /\ textResult.done
    /\ Len(elements) > 0
    /\ \E i \in 1..Len(elements) : ~elements[i].has
    /\ KeywordFrags = {}
    /\ default = Txt_NotFound
    /\ textResult.value = Txt_NotFound

---------------------------------------------------------------------------
(* Properties of parse (SpecParse) *)

Val_Rating48  == <<STAR, " ", "4", ".", "8">>
Val_Colors3   == <<"3">>
Val_SizeM     == <<"M">>
Val_GenderMen == <<"M", "e", "n">>

HasParagraph(node, text) ==
    \E i \in 1..Len(node.info_paragraphs) : node.info_paragraphs[i] = Frag(text)
NoParagraphWith(node, kw) ==
    \A i \in 1..Len(node.info_paragraphs) : ~KeywordIn(node.info_paragraphs[i], kw).value

\* a field read from a paragraph: the sentinel when the paragraph is
\* missing, the real value when the documented paragraph is there
FieldAsDocumented(node, got, kw, text, real, sentinel) ==
    /\ NoParagraphWith(node, kw) => got = sentinel
    /\ HasParagraph(node, text) => got = real

\* C9: for every entry node and every subset of missing sub-elements, parse
\* returns a record (not absent) with the documented sentinel in exactly
\* the missing fields, the real value in the present ones, and a Timestamp.
C9_SentinelExactlyWhereMissing ==
    (product.done /\ ~html_element.raises) =>
        LET node == html_element
            rec == product.value
        IN  /\ ~product.raised
            /\ ~rec.absent
            /\ rec.Title = IF node.title.has /\ Len(Strip(node.title.text)) > 0
                           THEN Txt_Tee ELSE DEFAULT_VALUES.title
            /\ rec.Price = IF node.price.has THEN Txt_Price ELSE DEFAULT_VALUES.price
            /\ FieldAsDocumented(node, rec.Rating, kwRating, Txt_Rating48,
                                 Val_Rating48, DEFAULT_VALUES.rating)
            /\ FieldAsDocumented(node, rec.Colors, kwColors, Txt_Colors3,
                                 Val_Colors3, DEFAULT_VALUES.colors)
            /\ FieldAsDocumented(node, rec.Size, kwSize, Txt_SizeM,
                                 Val_SizeM, DEFAULT_VALUES.size)
            /\ FieldAsDocumented(node, rec.Gender, kwGender, Txt_GenderMen,
                                 Val_GenderMen, DEFAULT_VALUES.gender)
            /\ rec.Timestamp = clock

\* C10: for an entry whose four paragraphs have the documented shape, parse
\* with the configured patterns returns the real values and none of the
\* four fields holds its sentinel.
C10_DocumentedShapeParsed ==
    (/\ product.done
     /\ ~html_element.raises
     /\ HasParagraph(html_element, Txt_Rating48)
     /\ HasParagraph(html_element, Txt_Colors3)
     /\ HasParagraph(html_element, Txt_SizeM)
     /\ HasParagraph(html_element, Txt_GenderMen)) =>
        LET rec == product.value
        IN  /\ ~rec.absent
            /\ rec.Rating = Val_Rating48 /\ rec.Rating # DEFAULT_VALUES.rating
            /\ rec.Colors = Val_Colors3 /\ rec.Colors # DEFAULT_VALUES.colors
            /\ rec.Size = Val_SizeM /\ rec.Size # DEFAULT_VALUES.size
            /\ rec.Gender = Val_GenderMen /\ rec.Gender # DEFAULT_VALUES.gender

---------------------------------------------------------------------------
(* Properties of extract (SpecExtract) *)

\* the fetches that returned absent
FailedFetches == {k \in 1..Len(fetchLog) : fetchLog[k].content = "None"}

\* the records the parser returned for entries of pages before page n, in
\* the order of the calls
RECURSIVE ParsedBefore(_, _)
ParsedBefore(calls, n) ==
    IF Len(calls) = 0 THEN <<>>
    ELSE (IF Head(calls).record /\ Head(calls).page < n
          THEN <<[page |-> Head(calls).page, entry |-> Head(calls).entry]>>
          ELSE <<>>)
         \o ParsedBefore(Tail(calls), n)

\* C1: when the fetch of page K returns absent after the fetches of pages
\* 1..K-1 succeeded, extract fetches no page after K (the failed fetch is
\* the last one, and the call has returned) and returns exactly the records
\* parsed from pages 1..K-1.
C1_HaltOnFetchFailure ==
    \A k \in FailedFetches :
        /\ epc = "returned"
        /\ k = Len(fetchLog)
        /\ \A j \in 1..Len(fetchLog) : fetchLog[j].page = j
        /\ \A i \in 1..Len(parseLog) : parseLog[i].page < k
        /\ data = ParsedBefore(parseLog, k)

\* C1 witness: page K = 3 of N = 3 failed after two pages that yielded
\* records, and the call returned those records.
C1_Witness ==
    /\ epc = "returned"
    /\ total_pages = 3
    /\ Len(fetchLog) = 3
    /\ fetchLog[3].content = "None"
    /\ \E i \in 1..Len(data) : data[i].page = 1
    /\ \E i \in 1..Len(data) : data[i].page = 2

---------------------------------------------------------------------------
(* Properties of transform (SpecTransform) *)

SentinelRating(row) == row.Rating.kind = "str" /\ row.Rating.text = DEFAULT_VALUES.rating

\* the rows of the raw table that the rating filter lets through
Survivors == {i \in 1..Len(df_raw.rows) : ~SentinelRating(df_raw.rows[i])}

\* a price text that is no number once '$' and ',' are gone: one with a
\* character that is neither a digit, '.', '$' nor ','
PriceMalformed(row) ==
    \E i \in 1..Len(row.Price.text) : row.Price.text[i] \notin Digit \cup {".", "$", ","}
\* a colors text with no digit in it
ColorsMalformed(row) == \A i \in 1..Len(row.Colors.text) : row.Colors.text[i] \notin Digit

\* a row in which every column has been cleaned
FullyCleaned(row) ==
    /\ row.Rating.kind \in {"float", "nan"}
    /\ row.Price.kind = "float"
    /\ row.Colors.kind = "int"
    /\ row.Size.kind = "str"
    /\ row.Gender.kind = "str"
    /\ \/ row.Timestamp.kind = "nan"
       \/ row.Timestamp.kind = "str" /\ Len(row.Timestamp.text) = 5
                                     /\ row.Timestamp.text[2] = "T"

\* C2: transform is all-or-nothing.  If a cleaner raised (in particular
\* when a surviving row has a malformed Price or Colors text, or the table
\* has no columns), the table returned is the empty table; and a table
\* returned is never partly cleaned: each of its rows is a surviving row
\* with every column cleaned.
C2_AllOrNothing ==
    tpc = "returned" =>
        /\ raisedIn # "none" => df_cleaned = EmptyFrame
        /\ (\/ df_raw.columns = <<>>
            \/ \E i \in Survivors :
                 PriceMalformed(df_raw.rows[i]) \/ ColorsMalformed(df_raw.rows[i]))
              => (raisedIn # "none" /\ df_cleaned = EmptyFrame)
        /\ \A i \in 1..Len(df_cleaned.rows) : FullyCleaned(df_cleaned.rows[i])
        /\ df_cleaned # EmptyFrame => Len(df_cleaned.rows) = Cardinality(Survivors)

\* C2 witness: the Price cleaner raised on a two-row table whose other row
\* is well formed, after the Rating cleaner had run, and the empty table
\* came back.
C2_Witness ==
    /\ tpc = "returned"
    /\ raisedIn = "Price"
    /\ invoked = <<"Rating", "Price">>
    /\ Len(df_raw.rows) = 2
    /\ \E i \in Survivors : ~PriceMalformed(df_raw.rows[i]) /\ ~ColorsMalformed(df_raw.rows[i])
    /\ df_cleaned = EmptyFrame

\* C6: when the transform does not fail, no row whose Rating is the
\* sentinel is in the cleaned table and every other input row is: the
\* cleaned rows carry exactly the index labels of the non-sentinel rows,
\* once each.
C6_SentinelRowsDropped ==
    (tpc = "returned" /\ raisedIn = "none") =>
        /\ \A i \in 1..Len(df_cleaned.rows) : ~SentinelRating(df_cleaned.rows[i])
        /\ {df_cleaned.rows[i].index : i \in 1..Len(df_cleaned.rows)}
             = {df_raw.rows[i].index : i \in Survivors}
        /\ Len(df_cleaned.rows) = Cardinality(Survivors)

\* C6 witness: ratings ["* 4.5", "Invalid Rating"] give exactly one row,
\* the first, with Rating 4.5.
C6_Witness ==
    /\ tpc = "returned"
    /\ raisedIn = "none"
    /\ Len(df_raw.rows) = 2
    /\ df_raw.rows[1].Rating = StrCell(Txt_Star45)
    /\ SentinelRating(df_raw.rows[2])
    /\ Len(df_cleaned.rows) = 1
    /\ df_cleaned.rows[1].index = 0
    /\ df_cleaned.rows[1].Rating = FloatCell(450)

---------------------------------------------------------------------------
(* Properties of the loaders and load_to_all (SpecLoad) *)

Destinations == {"csv", "postgresql", "google_sheets"}

\* the calls made to one loader
CallsTo(loader) == {k \in 1..Len(loaderCalls) : loaderCalls[k].loader = loader}

\* C3: whatever the three loaders returned, the mapping load_to_all
\* returns has exactly the keys csv, postgresql and google_sheets, each
\* mapped to what that destination's loader returned in this invocation;
\* and once the three loaders have returned, load_to_all returns.
C3_ResultsAreLoaderOutcomes ==
    /\ lpc = "returned" =>
         /\ DOMAIN results = Destinations
         /\ \A d \in Destinations :
              \E k \in CallsTo(d) : results[d] = loaderCalls[k].value
    /\ (Len(loaderCalls) = 3 /\ \A k \in 1..3 : ~loaderCalls[k].raised) => lpc = "returned"

\* C3 witness: the loaders returned true, false, true and load_to_all
\* returned exactly that mapping.
C3_Witness ==
    /\ lpc = "returned"
    /\ loaderCalls[1].value /\ ~loaderCalls[2].value /\ loaderCalls[3].value
    /\ results["csv"] /\ ~results["postgresql"] /\ results["google_sheets"]

\* C4: in every invocation of load_to_all each of the three loaders is
\* invoked exactly once, in the order csv, postgresql, google_sheets,
\* whether the loaders before it succeeded or failed.
C4_EveryInvocationCallsAllThree ==
    lpc \in {"returned", "raised"} =>
        /\ Len(loaderCalls) = 3
        /\ loaderCalls[1].loader = "csv"
        /\ loaderCalls[2].loader = "postgresql"
        /\ loaderCalls[3].loader = "google_sheets"

\* C5: no loader raises to its caller; load returns false whenever a step
\* of the write failed and true only when every step succeeded, in which
\* case the destination holds the table.
C5_LoadersNeverRaise ==
    /\ \A k \in 1..Len(loaderCalls) :
         /\ ~loaderCalls[k].raised
         /\ loaderCalls[k].value <=> loaderCalls[k].fault = "none"
    /\ \A k \in CallsTo("csv") :
         loaderCalls[k].value => csv_file = Holding(load_args.data)
    /\ \A k \in CallsTo("postgresql") :
         loaderCalls[k].value =>
            /\ db_table.state = "written"
            /\ Len(db_table.rows) >= Len(load_args.data.rows)
    /\ \A k \in CallsTo("google_sheets") :
         loaderCalls[k].value => sheet = Holding(load_args.data)

\* C5 witness: a failed engine creation, a failed file write and a failed
\* spreadsheet update in one invocation, each reported as false.
C5_Witness ==
    /\ Len(loaderCalls) = 3
    /\ loaderCalls[1].fault = "write" /\ ~loaderCalls[1].value
    /\ loaderCalls[2].fault = "create_engine" /\ ~loaderCalls[2].value
    /\ loaderCalls[3].fault = "update" /\ ~loaderCalls[3].value
    /\ \A k \in 1..3 : ~loaderCalls[k].raised

---------------------------------------------------------------------------
(* Properties of ETLPipeline.run (SpecRun) *)

\* the stage calls that ended with an exception
RaisedStages == {k \in 1..Len(stageLog) : stageLog[k].raised}

StageOrder == <<"extract", "transform", "load">>

\* C11: run never raises to its caller; when a stage raises, run has
\* returned normally, that stage is the last one invoked in the run, and
\* the components of the later stages were never started.
C11_RunNeverRaises ==
    /\ rpc # "raised"
    /\ \A k \in RaisedStages :
         /\ k = Len(stageLog)
         /\ rpc = "returned"
         /\ stageLog[k].stage = "extract" =>
              (tpc = "idle" /\ invoked = <<>> /\ lpc = "idle" /\ loaderCalls = <<>>)

\* C11 witness: load_to_all raised in the load stage, after extract and
\* transform had returned, and run returned.
C11_Witness ==
    /\ rpc = "returned"
    /\ Len(stageLog) = 3
    /\ stageLog[3].stage = "load" /\ stageLog[3].raised
    /\ lpc = "raised"
    /\ ~stageLog[1].raised /\ ~stageLog[2].raised

\* C12: in a run in which no stage raises, the stages are invoked once
\* each in the order extract, transform, load; transform is given exactly
\* the table extract returned and load exactly the table transform
\* returned (and the transformer and the loader, when reached, are given
\* those same tables).
C12_StagesInOrderWithHandOver ==
    /\ Len(stageLog) <= 3
    /\ \A k \in 1..Len(stageLog) : stageLog[k].stage = StageOrder[k]
    /\ (rpc = "returned" /\ RaisedStages = {}) =>
         /\ Len(stageLog) = 3
         /\ stageLog[2].given = stageLog[1].returned
         /\ stageLog[3].given = stageLog[2].returned
    /\ (Len(stageLog) >= 1 /\ tpc # "idle") => df_raw = stageLog[1].returned
    /\ (Len(stageLog) >= 2 /\ lpc # "idle") => load_args.data = stageLog[2].returned

\* C12 witness: a run that returned with no stage raising, in which the
\* transformer dropped a row (so the cleaned table differs from the raw
\* one) and the loader was called with the cleaned table.
C12_Witness ==
    /\ rpc = "returned"
    /\ RaisedStages = {}
    /\ Len(stageLog) = 3
    /\ Len(stageLog[1].returned.rows) = 2
    /\ Len(stageLog[2].returned.rows) = 1
    /\ lpc = "returned"
    /\ load_args.data = stageLog[2].returned

---------------------------------------------------------------------------
(* Properties of PriceCleaner (SpecPrice) *)

\* a constructor argument as the caller supplied it, or the documented default
Supplied(arg, dflt) == IF arg.given THEN arg.v ELSE dflt

\* the number left after removing '$' and ',' from a price text (hundredths)
PriceNumber(row) == ParseFloat(Remove(Remove(row.Price.text, "$"), ",")).num

\* C13: for every exchange rate r and precision d passed to PriceCleaner
\* (0 included), the cleaned Price of each row is round(v * r, d), with the
\* defaults 16000 and 1 only where r or d was not supplied.
C13_PriceIsRoundedProduct ==
    (tpc = "returned" /\ invoked = <<"Price">> /\ raisedIn = "none") =>
        /\ Len(df_cleaned.rows) = Len(df_raw.rows)
        /\ \A i \in 1..Len(df_cleaned.rows) :
             df_cleaned.rows[i].Price =
                FloatCell(Round(PriceNumber(df_raw.rows[i])
                                  * Supplied(price_args.usd_to_idr_rate, 16000),
                                Supplied(price_args.decimal_places, 1)))

---------------------------------------------------------------------------
(* Properties of the cleaners inside transform (SpecTransform) *)

\* a rating text of the shape star glyph, optional spaces, digits '.' digits
RatingShaped(row) ==
    \E i \in 1..Len(row.Rating.text) :
        /\ row.Rating.text[i] = STAR
        /\ LET j == SpanEnd(row.Rating.text, i + 1, Space)
               k == SpanEnd(row.Rating.text, j, Digit)
           IN  /\ k > j
               /\ k <= Len(row.Rating.text)
               /\ row.Rating.text[k] = "."
               /\ SpanEnd(row.Rating.text, k + 1, Digit) > k + 1

\* C14: if a row that survives the sentinel filter has a Rating text that
\* is not star glyph + decimal number (such as the star and "4"), the whole
\* transform fails and returns the empty table.
C14_UnshapedRatingFailsTransform ==
    (tpc = "returned" /\ \E i \in Survivors : ~RatingShaped(df_raw.rows[i]))
        => (raisedIn # "none" /\ df_cleaned = EmptyFrame)

\* the raw row a cleaned row came from (rows keep their index label)
RawOf(row) == df_raw.rows[row.index + 1]

\* the value of the first run of digits of a text
FirstNumber(s) ==
    LET at == CHOOSE i \in 1..Len(s) : s[i] \in Digit /\ \A j \in 1..(i - 1) : s[j] \notin Digit
    IN  DigitsVal(SubSeq(s, at, SpanEnd(s, at, Digit) - 1))

\* C15: if a row that survives the rating filter has a Colors text with no
\* digit (the colors sentinel included), the whole transform fails and
\* returns the empty table; otherwise every cleaned Colors value is the
\* non-negative integer taken from the text.
C15_ColorsDigitsOrFailure ==
    tpc = "returned" =>
        /\ (\E i \in Survivors : ColorsMalformed(df_raw.rows[i]))
              => (raisedIn # "none" /\ df_cleaned = EmptyFrame)
        /\ \A i \in 1..Len(df_cleaned.rows) :
             /\ df_cleaned.rows[i].Colors.kind = "int"
             /\ df_cleaned.rows[i].Colors.num >= 0
             /\ df_cleaned.rows[i].Colors.num = FirstNumber(RawOf(df_cleaned.rows[i]).Colors.text)

\* C15 witness: a row with "3 Colors" and a surviving row with the colors
\* sentinel; the Colors cleaner raised and the empty table came back.
C15_Witness ==
    /\ tpc = "returned"
    /\ Len(df_raw.rows) = 2
    /\ df_raw.rows[1].Colors = StrCell(Txt_Colors3)
    /\ df_raw.rows[2].Colors = StrCell(DEFAULT_VALUES.colors)
    /\ 2 \in Survivors
    /\ raisedIn = "Colors"
    /\ df_cleaned = EmptyFrame

\* a timestamp that cannot be parsed
BadTimestamp(row) == row.Timestamp = StrCell(Txt_BadDate)

\* C17: an unparsable Timestamp never makes the transform fail: the
\* Timestamp cleaner never raises on it, a table whose surviving rows are
\* otherwise well formed is returned with every surviving row, the bad
\* row's Timestamp is the null marker and its other columns are cleaned; a
\* parsable Timestamp becomes date 'T' time '.' microseconds.
C17_BadTimestampBecomesNull ==
    tpc = "returned" =>
        /\ raisedIn # "Timestamp"
        /\ (/\ df_raw.columns # <<>>
            /\ \A i \in Survivors :
                 ~PriceMalformed(df_raw.rows[i]) /\ ~ColorsMalformed(df_raw.rows[i]))
              => (raisedIn = "none" /\ Len(df_cleaned.rows) = Cardinality(Survivors))
        /\ \A i \in 1..Len(df_cleaned.rows) :
             LET row == df_cleaned.rows[i]
             IN  /\ row.Price.kind = "float"
                 /\ row.Colors.kind = "int"
                 /\ IF BadTimestamp(RawOf(row))
                    THEN row.Timestamp = NaN
                    ELSE /\ row.Timestamp.kind = "str"
                         /\ row.Timestamp.text = <<"2025-05-10", "T", "10:00:00", ".", "000000">>

\* C17 witness: a two-row table, one Timestamp unparsable and one
\* parsable; both rows came back, the first with the null marker and the
\* second in ISO form.
C17_Witness ==
    /\ tpc = "returned"
    /\ raisedIn = "none"
    /\ Len(df_cleaned.rows) = 2
    /\ BadTimestamp(df_raw.rows[1])
    /\ df_cleaned.rows[1].Timestamp = NaN
    /\ df_cleaned.rows[1].Price = FloatCell(16000000)
    /\ df_cleaned.rows[2].Timestamp.kind = "str"
    /\ df_cleaned.rows[2].Timestamp.text[2] = "T"

\* C16: when transform is given an empty table it returns an empty table
\* and none of the five cleaners is invoked.
C16_EmptyInputInvokesNoCleaner ==
    (tpc # "idle" /\ IsEmpty(df_raw)) =>
        /\ invoked = <<>>
        /\ tpc = "returned" => IsEmpty(df_cleaned)

---------------------------------------------------------------------------
(* Further properties of load_to_all (SpecLoad) *)

\* C18: no exception escapes load_to_all, whatever the table, the override
\* and the environment (a POSTGRES_PORT that is not a number included): the
\* call never ends by raising, and when it has ended the three loaders were
\* attempted and the mapping has the three destinations.
C18_LoadToAllNeverRaises ==
    /\ lpc # "raised"
    /\ lpc = "returned" =>
         /\ \A d \in Destinations : CallsTo(d) # {}
         /\ DOMAIN results = Destinations

---------------------------------------------------------------------------
(* Further properties of extract (SpecExtract) *)

\* the parse calls made for the entries of page n
CallsOfPage(n) == {i \in 1..Len(parseLog) : parseLog[i].page = n}

\* C19: extract ends only after page total_pages was processed or right
\* after a fetch that failed (returned absent); a page whose fetch
\* succeeded, whatever bytes came back, is followed by the fetch of the next
\* page when one remains; a page with zero entry nodes appends nothing.
C19_EndsAtLastPageOrFailedFetch ==
    /\ epc = "returned" =>
         \/ Len(fetchLog) = (IF total_pages > 0 THEN total_pages ELSE 0)
         \/ (Len(fetchLog) > 0 /\ fetchLog[Len(fetchLog)].content = "None")
    /\ \A k \in 1..Len(fetchLog) :
         /\ (epc = "returned" /\ fetchLog[k].content # "None" /\ k < total_pages)
               => Len(fetchLog) > k
         /\ fetchLog[k].content = "nocards" =>
               (CallsOfPage(k) = {} /\ \A i \in 1..Len(data) : data[i].page # k)

\* C20: an entry whose parse fails (absent or an exception) skips only
\* that entry: every entry of a page with entries is parsed, the list holds
\* exactly the records the parser returned, in call order (so the records
\* before and after the failure, and those of earlier pages, are there),
\* and the pages after it are still fetched.
C20_EntryFailureSkipsOnlyThatEntry ==
    /\ \A k \in 1..Len(fetchLog) :
         /\ fetchLog[k].content = "cards" =>
              {parseLog[i].entry : i \in CallsOfPage(k)} = 1..fetchLog[k].cards
         /\ (epc = "returned" /\ fetchLog[k].content = "cards" /\ k < total_pages)
               => Len(fetchLog) > k
    /\ data = ParsedBefore(parseLog, Len(fetchLog) + 1)

\* C20 witness: on page 1 the first entry fails and the second yields a
\* record; on page 2 the first yields a record and the second fails; both
\* records are in the list and page 3 was fetched.
C20_Witness ==
    /\ Len(fetchLog) = 3
    /\ Len(parseLog) >= 4
    /\ ~parseLog[1].record /\ parseLog[2].record
    /\ parseLog[3].record /\ ~parseLog[4].record
    /\ parseLog[2].page = 1 /\ parseLog[3].page = 2
    /\ SubSeq(data, 1, 2) = <<[page |-> 1, entry |-> 2], [page |-> 2, entry |-> 1]>>

\* the sleeps made for page k
SleepsOf(k) == {i \in 1..Len(sleepLog) : sleepLog[i].page = k}

\* C21: for each page whose entries were processed, extract has slept
\* exactly once for that page, with the configured delay, by the time the
\* page is done (so before the next fetch); the last configured page is no
\* exception.
C21_OneSleepPerProcessedPage ==
    \A k \in 1..Len(fetchLog) :
        fetchLog[k].content = "cards" =>
            /\ Cardinality(SleepsOf(k)) = 1
            /\ \A i \in SleepsOf(k) : sleepLog[i].seconds = delay
            /\ \A i \in SleepsOf(k) : \A j \in 1..Len(sleepLog) :
                   sleepLog[j].page > k => j > i

\* C21 witness: three pages of three with entries, a delay of 2, and a
\* sleep of 2 made for each, the last page included.
C21_Witness ==
    /\ epc = "returned"
    /\ total_pages = 3
    /\ delay = 2
    /\ Len(fetchLog) = 3
    /\ \A k \in 1..3 : fetchLog[k].content = "cards"
    /\ sleepLog = <<[page |-> 1, seconds |-> 2], [page |-> 2, seconds |-> 2],
                    [page |-> 3, seconds |-> 2]>>

\* C22: between any two consecutive fetches, of page P and page P+1, the
\* configured delay was slept at least once for page P, whatever page P held.
C22_SleepBetweenAnyTwoFetches ==
    \A k \in 1..(Len(fetchLog) - 1) :
        \E i \in SleepsOf(k) : sleepLog[i].seconds = delay

\* the largest number of fetches extract(total_pages = N) may make
MostFetches == IF total_pages > 0 THEN total_pages ELSE 0

\* C23: the URLs fetched are a prefix of base, base+page2, ..., base+pageN:
\* pages in increasing order from 1, page 1 at the base URL verbatim, no
\* page twice, at most N fetches; for N <= 0 nothing is fetched and the
\* empty list is returned.
C23_UrlsArePrefixOfPageSequence ==
    /\ Len(fetchLog) <= MostFetches
    /\ \A k \in 1..Len(fetchLog) :
         /\ fetchLog[k].page = k
         /\ fetchLog[k].url = IF k = 1 THEN <<"BASE_URL">> ELSE <<"BASE_URL", "page", k>>
    /\ (total_pages <= 0 /\ epc = "returned") => (fetchLog = <<>> /\ data = <<>>)

\* C23 witness: three fetches of three, at base, base+page2, base+page3.
C23_Witness ==
    /\ epc = "returned"
    /\ total_pages = 3
    /\ Len(fetchLog) = 3
    /\ fetchLog[1].url = <<"BASE_URL">>
    /\ fetchLog[2].url = <<"BASE_URL", "page", 2>>
    /\ fetchLog[3].url = <<"BASE_URL", "page", 3>>

---------------------------------------------------------------------------
(* Properties of the spreadsheet loader and of the table handed to the     *)
(* loaders (SpecLoad)                                                      *)

\* the positions of a step among the steps a call attempted
StepAt(call, step) == {i \in 1..Len(call.steps) : call.steps[i] = step}

\* C24: in GoogleSheetsDataLoader.load the clear precedes the update, the
\* update is issued only when authentication and the clear succeeded, a
\* failed authentication issues neither, and an update that fails after the
\* clear gives false and leaves the range cleared.
C24_ClearThenUpdate ==
    \A k \in CallsTo("google_sheets") :
        LET call == loaderCalls[k]
        IN  /\ \A i \in StepAt(call, "update") :
                 /\ \E j \in StepAt(call, "clear") : j < i
                 /\ call.fault \notin {"credentials", "build", "clear"}
            /\ call.fault \in {"credentials", "build"} =>
                 (StepAt(call, "clear") = {} /\ StepAt(call, "update") = {})
            /\ call.fault = "update" => (~call.value /\ sheet = Cleared)

\* C24 witness: the range held an earlier table (as the file, left alone
\* by a failed open, still does); the clear succeeded, the update failed,
\* load returned false and the range is cleared.
C24_Witness ==
    /\ lpc = "returned"
    /\ loaderCalls[1].fault = "open"
    /\ csv_file = Holding(Earlier)
    /\ loaderCalls[3].fault = "update"
    /\ loaderCalls[3].steps = <<"credentials", "build", "clear", "update">>
    /\ ~results["google_sheets"]
    /\ sheet = Cleared

\* C25: no loader mutates the table it is given: every loader leaves the
\* table as it received it, each receives the table the first one did, and
\* the caller's table still has it (its column names are not lower-cased).
C25_LoadersLeaveTableAlone ==
    /\ \A k \in 1..Len(loaderCalls) :
         /\ loaderCalls[k].left = loaderCalls[k].given
         /\ loaderCalls[k].given = loaderCalls[1].given
         /\ load_args.data = loaderCalls[1].given
    /\ load_args.data.columns \in {COLUMNS, <<>>}

\* C25 witness: the file write failed, the relational write succeeded with
\* lower-cased column names, and the spreadsheet loader and the caller
\* still see the capitalised columns.
C25_Witness ==
    /\ lpc = "returned"
    /\ Len(load_args.data.rows) = 2
    /\ ~results["csv"] /\ results["postgresql"]
    /\ db_table.columns[1] = "title"
    /\ loaderCalls[3].given.columns = COLUMNS
    /\ load_args.data.columns = COLUMNS

---------------------------------------------------------------------------
(* Row order from extraction through cleaning (SpecRun) *)

\* C26: row order is preserved end to end: the records extract holds are
\* ordered by page number and, within a page, by entry position; and when
\* transform succeeds its rows are the input rows with a non-sentinel
\* Rating, each once, in the order they had in the input.
C26_RowOrderPreserved ==
    /\ \A i \in 1..Len(data) : \A j \in (i + 1)..Len(data) :
         \/ data[i].page < data[j].page
         \/ (data[i].page = data[j].page /\ data[i].entry < data[j].entry)
    /\ (tpc = "returned" /\ raisedIn = "none") =>
         /\ \A i \in 1..Len(df_cleaned.rows) : \A j \in (i + 1)..Len(df_cleaned.rows) :
              df_cleaned.rows[i].index < df_cleaned.rows[j].index
         /\ {df_cleaned.rows[i].index + 1 : i \in 1..Len(df_cleaned.rows)} = Survivors
         /\ \A i \in 1..Len(df_cleaned.rows) :
              df_cleaned.rows[i].Title = RawOf(df_cleaned.rows[i]).Title

\* C26 witness: records of two pages in page and entry order; the raw
\* table has a sentinel row between two good ones, and the cleaned table
\* has the rows labelled 0 and 2, in that order.
C26_Witness ==
    /\ tpc = "returned"
    /\ raisedIn = "none"
    /\ Len(data) >= 3
    /\ data[1].page = 1 /\ data[2].page = 1 /\ data[3].page = 2
    /\ Len(df_cleaned.rows) = 2
    /\ df_cleaned.rows[1].index = 0
    /\ df_cleaned.rows[2].index = 2

---------------------------------------------------------------------------
(* Order of the cleaners, the Rating of returned rows, and the caller's    *)
(* table (SpecTransform)                                                   *)

CleanerOrder == <<"Rating", "Price", "Colors", "Attribute", "Timestamp">>

\* C27: the cleaners run in the order Rating, Price, Colors, Attribute,
\* Timestamp and a cleaner that raises is the last one to run; a row whose
\* Rating is the sentinel never makes the transform fail, whatever its
\* Price or Colors text: when the other rows are well formed the transform
\* runs all five cleaners and returns exactly those rows, cleaned.
C27_FixedOrderAndFilterFirst ==
    /\ Len(invoked) <= 5
    /\ invoked = SubSeq(CleanerOrder, 1, Len(invoked))
    /\ raisedIn # "none" => (tpc = "returned" /\ invoked[Len(invoked)] = raisedIn)
    /\ (/\ tpc = "returned"
        /\ df_raw.columns # <<>>
        /\ \A i \in Survivors :
             ~PriceMalformed(df_raw.rows[i]) /\ ~ColorsMalformed(df_raw.rows[i]))
          => /\ raisedIn = "none"
             /\ invoked = CleanerOrder
             /\ {df_cleaned.rows[i].index + 1 : i \in 1..Len(df_cleaned.rows)} = Survivors
             /\ \A i \in 1..Len(df_cleaned.rows) : FullyCleaned(df_cleaned.rows[i])

\* C27 witness: a row with the rating sentinel and the price sentinel
\* before a well-formed row; all five cleaners ran, none raised, and the
\* second row alone came back, cleaned.
C27_Witness ==
    /\ tpc = "returned"
    /\ Len(df_raw.rows) = 2
    /\ SentinelRating(df_raw.rows[1])
    /\ df_raw.rows[1].Price = StrCell(DEFAULT_VALUES.price)
    /\ raisedIn = "none"
    /\ invoked = CleanerOrder
    /\ Len(df_cleaned.rows) = 1
    /\ df_cleaned.rows[1].index = 1
    /\ df_cleaned.rows[1].Price.kind = "float"

\* the number that follows the star glyph in a raw rating text (hundredths)
NumberAfterStar(s) == ParseFloat(SubSeq(s, 2, Len(s))).num

\* C28: in every table transform returns, no row holds the rating sentinel
\* and every row's Rating is the number that followed the star glyph in
\* its raw text, never a null.
C28_RatingAlwaysTheNumber ==
    tpc = "returned" =>
        \A i \in 1..Len(df_cleaned.rows) :
            LET row == df_cleaned.rows[i]
            IN  /\ ~SentinelRating(row)
                /\ row.Rating.kind = "float"
                /\ row.Rating.num = NumberAfterStar(RawOf(row).Rating.text)

---------------------------------------------------------------------------
(* Runs that have nothing to load (SpecRun) *)

\* extract_data returned no rows, or transform_data returned no rows
NothingToLoad ==
    \/ (Len(stageLog) >= 1 /\ ~stageLog[1].raised /\ Len(stageLog[1].returned.rows) = 0)
    \/ (Len(stageLog) >= 2 /\ Len(stageLog[2].returned.rows) = 0)

\* C29: when extraction returns no records, or the transform returns an
\* empty table, load_to_all is not called and no loader runs: the file,
\* the relational table and the spreadsheet range are as they were.
C29_NothingLoadedWhenEmpty ==
    NothingToLoad =>
        /\ lpc = "idle"
        /\ loaderCalls = <<>>
        /\ csv_file = Holding(Earlier)
        /\ db_table.rows = Earlier.rows
        /\ sheet = Holding(Earlier)

\* C29 witness: records were extracted, the Price cleaner raised, the
\* transform returned the empty table, the run returned after the load
\* stage, and the destinations hold what they held.
C29_Witness ==
    /\ rpc = "returned"
    /\ Len(stageLog) = 3
    /\ Len(stageLog[1].returned.rows) > 0
    /\ raisedIn = "Price"
    /\ stageLog[2].returned = EmptyFrame
    /\ stageLog[3].stage = "load" /\ ~stageLog[3].raised
    /\ loaderCalls = <<>>
    /\ csv_file = Holding(Earlier)

====
